---- MODULE Spec2Model ----
(***************************************************************************)
(* Model of the PDFsaver OCR worker (apps/ocr-worker/main.py): the         *)
(* rule-based document classifier, the date resolver, the filename builder *)
(* and the /v1/ocr-extract handler with its in-memory result cache.        *)
(*                                                                         *)
(* A text is a sequence of lines.  A line carries a phrase (its letters,   *)
(* as OCR produced them, mixed case) and optionally a date token that      *)
(* follows the phrase after ": ".  Keyword tests are Python's substring    *)
(* test on the upper-cased text and are computed character by character.   *)
(***************************************************************************)
EXTENDS Integers, Sequences, FiniteSets, TLC

None == "None"

(***************************************************************************)
(* Strings: str.upper(), str.lower() and the `in` operator.                *)
(***************************************************************************)
LowerAlphabet == "abcdefghijklmnopqrstuvwxyz"
UpperAlphabet == "ABCDEFGHIJKLMNOPQRSTUVWXYZ"

CharAt(s, i) == SubSeq(s, i, i)

IndexIn(alphabet, c) ==
    IF \E i \in 1..Len(alphabet) : CharAt(alphabet, i) = c
    THEN CHOOSE i \in 1..Len(alphabet) : CharAt(alphabet, i) = c
    ELSE 0

\* the upper-case form of every lower-case letter, and the reverse
UpperOf == [c \in {CharAt(LowerAlphabet, i) : i \in 1..26} |-> CharAt(UpperAlphabet, IndexIn(LowerAlphabet, c))]

LowerOf == [c \in {CharAt(UpperAlphabet, i) : i \in 1..26} |-> CharAt(LowerAlphabet, IndexIn(UpperAlphabet, c))]

UpperChar(c) == IF c \in DOMAIN UpperOf THEN UpperOf[c] ELSE c

LowerChar(c) == IF c \in DOMAIN LowerOf THEN LowerOf[c] ELSE c

\* str.upper(), character by character (the string is halved to keep the
\* recursion shallow)
RECURSIVE Upper(_)
Upper(s) ==
    IF Len(s) = 0 THEN ""
    ELSE IF Len(s) = 1 THEN UpperChar(s)
    ELSE LET h == Len(s) \div 2
         IN  Upper(SubSeq(s, 1, h)) \o Upper(SubSeq(s, h + 1, Len(s)))

\* str.lower()
RECURSIVE Lower(_)
Lower(s) ==
    IF Len(s) = 0 THEN ""
    ELSE IF Len(s) = 1 THEN LowerChar(s)
    ELSE LET h == Len(s) \div 2
         IN  Lower(SubSeq(s, 1, h)) \o Lower(SubSeq(s, h + 1, Len(s)))

\* Python: p in t
Contains(t, p) ==
    \E i \in 1..(Len(t) - Len(p) + 1) : SubSeq(t, i, i + Len(p) - 1) = p

\* x if it is not None, else y
OrElse(x, y) == IF x # None THEN x ELSE y

\* Python: sum(1 for h in hints if h in upper_text), hints a list
CountIn(hints, u) == Cardinality({i \in 1..Len(hints) : Contains(u, hints[i])})

\* Python: any(h in upper_text for h in terms)
AnyIn(terms, u) == \E i \in 1..Len(terms) : Contains(u, terms[i])

MapUpper(terms) == [i \in 1..Len(terms) |-> Upper(terms[i])]

(***************************************************************************)
(* Regular expressions (module re).  A pattern is a sequence of elements;  *)
(* Ends gives, in the order a backtracking matcher tries them, the         *)
(* positions where a match that starts at pos can end.  Literals are       *)
(* compared case-insensitively: every pattern of the source that has       *)
(* letters is compiled with (?i) or re.IGNORECASE.                         *)
(***************************************************************************)
Unbounded == 1000000

Lit(str) == [k |-> "lit", s |-> str, min |-> 0, max |-> 0, lazy |-> FALSE, alts |-> <<>>]

\* a character class with a quantifier {min,max}, greedy or lazy
Cls(name, min, max, lazy) == [k |-> "cls", s |-> name, min |-> min, max |-> max, lazy |-> lazy, alts |-> <<>>]

\* (?:a|b|...), each alternative a pattern
Alt(alts) == [k |-> "alt", s |-> "", min |-> 0, max |-> 0, lazy |-> FALSE, alts |-> alts]

\* (?:...)? : the alternatives, or nothing
Opt(alts) == Alt(alts \o << <<>> >>)

WordBoundary == [k |-> "bnd", s |-> "", min |-> 0, max |-> 0, lazy |-> FALSE, alts |-> <<>>]

EndOfString == [k |-> "end", s |-> "", min |-> 0, max |-> 0, lazy |-> FALSE, alts |-> <<>>]

StartOfString == [k |-> "start", s |-> "", min |-> 0, max |-> 0, lazy |-> FALSE, alts |-> <<>>]

CharsOf(str) == {CharAt(str, i) : i \in 1..Len(str)}

LetterChars == CharsOf(LowerAlphabet) \cup CharsOf(UpperAlphabet)

DigitChars == CharsOf("0123456789")

SpaceChars == {" ", "\n", "\t", "\r"}

\* \w
WordChars == LetterChars \cup DigitChars \cup {"_"}

InClass(name, ch) ==
    CASE name = "[:\\s]" -> ch \in SpaceChars \cup {":"}
      [] name = "\\s" -> ch \in SpaceChars
      [] name = "[A-Z](?i)" -> ch \in LetterChars
      [] name = "[A-Z]" -> ch \in CharsOf(UpperAlphabet)
      [] name = "[A-Z0-9-](?i)" -> ch \in LetterChars \cup DigitChars \cup {"-"}
      [] name = "[^A-Z0-9]" -> ch \notin CharsOf(UpperAlphabet) \cup DigitChars
      [] name = "[A-Za-z0-9\\s&.,()-]" -> ch \in LetterChars \cup DigitChars \cup SpaceChars \cup {"&", ".", ",", "(", ")", "-"}
      [] name = "[^)]" -> ch # ")"
      [] name = "." -> ch # "\n"
      [] name = "\\." -> ch = "."
      [] name = "\\w" -> ch \in WordChars
      [] name = "\\d" -> ch \in DigitChars
      [] name = "[^\\w\\s-]" -> ch \notin WordChars \cup SpaceChars \cup {"-"}
      [] name = "[\\s-]" -> ch \in SpaceChars \cup {"-"}
      [] name = "[^\\s]" -> ch \notin SpaceChars
      [] name = "[:\\-\\*\\s]" -> ch \in SpaceChars \cup {":", "-", "*"}
      [] OTHER -> FALSE

IsWordAt(t, pos) == pos >= 1 /\ pos <= Len(t) /\ CharAt(t, pos) \in WordChars

\* \b between pos - 1 and pos
BoundaryAt(t, pos) == IsWordAt(t, pos - 1) # IsWordAt(t, pos)

\* $ : at the end, or before a newline that ends the string
AtEnd(t, pos) == pos = Len(t) + 1 \/ (pos = Len(t) /\ CharAt(t, pos) = "\n")

LitAt(t, pos, str) ==
    /\ pos + Len(str) - 1 <= Len(t)
    /\ Upper(SubSeq(t, pos, pos + Len(str) - 1)) = Upper(str)

\* the least of a set of positions, last if the set is empty
FirstOf(positions, last) ==
    IF positions = {} THEN last ELSE CHOOSE p \in positions : \A q \in positions : p <= q

Least(a, b) == IF a < b THEN a ELSE b

\* how many characters of the class follow from pos on, at most max
RunLength(t, pos, name, max) ==
    Least(FirstOf({p \in pos..Len(t) : ~InClass(name, CharAt(t, p))}, Len(t) + 1) - pos, max)

RECURSIVE Flatten(_)
Flatten(seqs) == IF seqs = <<>> THEN <<>> ELSE Head(seqs) \o Flatten(Tail(seqs))

RECURSIVE Ends(_, _, _, _)
\* a quantified class that can take run characters at pos: the longest
\* repetition first if greedy, the shortest first if lazy
ClsEnds(re, i, t, pos, run) ==
    IF run < re[i].min THEN <<>>
    ELSE Flatten([j \in 1..(run - re[i].min + 1) |->
        Ends(re, i + 1, t, pos + (IF re[i].lazy THEN re[i].min + j - 1 ELSE run - j + 1))])

\* the rest of the pattern after each way the alternative can end
AltEnds(re, i, t, inner) == Flatten([j \in 1..Len(inner) |-> Ends(re, i + 1, t, inner[j])])

Ends(re, i, t, pos) ==
    IF i > Len(re) THEN <<pos>>
    ELSE LET e == re[i]
         IN  CASE e.k = "lit" ->
                    IF LitAt(t, pos, e.s) THEN Ends(re, i + 1, t, pos + Len(e.s)) ELSE <<>>
               [] e.k = "cls" -> ClsEnds(re, i, t, pos, RunLength(t, pos, e.s, e.max))
               [] e.k = "alt" ->
                    Flatten([a \in 1..Len(e.alts) |->
                        AltEnds(re, i, t, Ends(e.alts[a], 1, t, pos))])
               [] e.k = "bnd" -> IF BoundaryAt(t, pos) THEN Ends(re, i + 1, t, pos) ELSE <<>>
               [] e.k = "end" -> IF AtEnd(t, pos) THEN Ends(re, i + 1, t, pos) ELSE <<>>
               [] e.k = "start" -> IF pos = 1 THEN Ends(re, i + 1, t, pos) ELSE <<>>
               [] OTHER -> <<>>

NoMatch == [found |-> FALSE, start |-> 0, from |-> 0, to |-> 0, end |-> 0]

\* the match whose group is t[from..to-1], if the suffix can end after it
SuffixMatch(start, from, to, suffix_ends) ==
    IF suffix_ends = <<>> THEN <<>>
    ELSE << [found |-> TRUE, start |-> start, from |-> from, to |-> to, end |-> suffix_ends[1]] >>

\* the matches for each way the group can end
GroupMatches(post, t, start, from, group_ends) ==
    Flatten([b \in 1..Len(group_ends) |->
        SuffixMatch(start, from, group_ends[b], Ends(post, 1, t, group_ends[b]))])

\* the matches for each way the prefix can end
PrefixMatches(group, post, t, start, prefix_ends) ==
    Flatten([a \in 1..Len(prefix_ends) |->
        GroupMatches(post, t, start, prefix_ends[a], Ends(group, 1, t, prefix_ends[a]))])

FirstMatch(candidates) == IF candidates = <<>> THEN NoMatch ELSE candidates[1]

\* the first way to match pre (group) post at start: the group is t[from..to-1]
MatchAt(pre, group, post, t, start) ==
    FirstMatch(PrefixMatches(group, post, t, start, Ends(pre, 1, t, start)))

\* the match at the least of the positions where there is one
LeftmostMatch(pre, group, post, t, starts) ==
    IF starts = {} THEN NoMatch ELSE MatchAt(pre, group, post, t, FirstOf(starts, 0))

\* re.search from position start on: the leftmost match
SearchFrom(pre, group, post, t, start) ==
    LeftmostMatch(pre, group, post, t,
                  {p \in start..(Len(t) + 1) : MatchAt(pre, group, post, t, p).found})

Search(pre, group, post, t) == SearchFrom(pre, group, post, t, 1)

Group1(t, m) == SubSeq(t, m.from, m.to - 1)

RECURSIVE SubFrom(_, _, _, _)
\* the text from pos on with the match m and every later match replaced
SubMatch(re, repl, t, pos, m) ==
    IF ~m.found \/ m.end = m.start THEN SubSeq(t, pos, Len(t))
    ELSE SubSeq(t, pos, m.start - 1) \o repl \o SubFrom(re, repl, t, m.end)

\* re.sub(re, repl, t) from position pos on; the patterns match no empty string
SubFrom(re, repl, t, pos) == SubMatch(re, repl, t, pos, SearchFrom(re, <<>>, <<>>, t, pos))

Sub(re, repl, t) == SubFrom(re, repl, t, 1)

RECURSIVE LStrip(_)
LStrip(t) == IF Len(t) > 0 /\ CharAt(t, 1) \in SpaceChars THEN LStrip(SubSeq(t, 2, Len(t))) ELSE t

RECURSIVE RStrip(_)
RStrip(t) == IF Len(t) > 0 /\ CharAt(t, Len(t)) \in SpaceChars THEN RStrip(SubSeq(t, 1, Len(t) - 1)) ELSE t

\* str.strip()
Strip(t) == LStrip(RStrip(t))

RECURSIVE Replace(_, _, _)
\* str.replace(old, new), old not empty
Replace(t, old, new) ==
    IF Len(t) < Len(old) THEN t
    ELSE IF SubSeq(t, 1, Len(old)) = old
         THEN new \o Replace(SubSeq(t, Len(old) + 1, Len(t)), old, new)
         ELSE CharAt(t, 1) \o Replace(SubSeq(t, 2, Len(t)), old, new)

RECURSIVE Split(_, _)
\* str.split(sep), sep one character
Split(t, sep) ==
    IF ~Contains(t, sep) THEN <<t>>
    ELSE LET i == CHOOSE j \in 1..Len(t) : CharAt(t, j) = sep /\ \A k \in 1..(j - 1) : CharAt(t, k) # sep
         IN  <<SubSeq(t, 1, i - 1)>> \o Split(SubSeq(t, i + 1, Len(t)), sep)

(***************************************************************************)
(* Texts.  A date token is what follows a label: three numbers with two    *)
(* separators (day-first shape with a four- or two-digit year, or          *)
(* year-first shape) or "D Month YYYY".                                    *)
(***************************************************************************)
NoDate == [shape |-> "none", a |-> 0, b |-> 0, y |-> 0, mon |-> "", s1 |-> "", s2 |-> ""]

Num(shape, a, s1, b, s2, y) == [shape |-> shape, a |-> a, b |-> b, y |-> y, mon |-> "", s1 |-> s1, s2 |-> s2]

Txt(d, mon, y) == [shape |-> "TXT", a |-> d, b |-> 0, y |-> y, mon |-> mon, s1 |-> " ", s2 |-> " "]

Line(s) == [s |-> s, tok |-> NoDate]

Dated(label, tok) == [s |-> label, tok |-> tok]

Digit(n) == CharAt("0123456789", n + 1)

Digits2(n) == Digit((n \div 10) % 10) \o Digit(n % 10)

Digits4(n) == Digits2(n \div 100) \o Digits2(n % 100)

\* the characters of a date token as they stand in the text
TokStr(t) ==
    CASE t.shape = "DMY"  -> Digits2(t.a) \o t.s1 \o Digits2(t.b) \o t.s2 \o Digits4(t.y)
      [] t.shape = "DMY2" -> Digits2(t.a) \o t.s1 \o Digits2(t.b) \o t.s2 \o Digits2(t.y)
      [] t.shape = "YMD"  -> Digits4(t.y) \o t.s1 \o Digits2(t.a) \o t.s2 \o Digits2(t.b)
      [] t.shape = "TXT"  -> Digits2(t.a) \o " " \o t.mon \o " " \o Digits4(t.y)
      [] OTHER -> ""

LineStr(l) == IF l.tok = NoDate THEN l.s ELSE l.s \o ": " \o TokStr(l.tok)

\* text_content: the lines, each ended by a newline
RECURSIVE TextStr(_)
TextStr(lines) ==
    IF lines = <<>> THEN ""
    ELSE LineStr(Head(lines)) \o "\n" \o TextStr(Tail(lines))

(***************************************************************************)
(* DOC_TYPE_PATTERNS (main.py 85-131), in dictionary order.  A rule without*)
(* an "exclude" or "require_any" key has has_exclude / has_require_any     *)
(* FALSE.                                                                  *)
(***************************************************************************)
DocTypeOrder ==
    << "DividendStatement", "DistributionStatement", "CallAndDistributionStatement",
       "PeriodicStatement", "BankStatement", "BuyContract", "SellContract",
       "HoldingStatement", "TaxStatement", "NetAssetSummaryStatement" >>

DocTypes == {DocTypeOrder[i] : i \in 1..Len(DocTypeOrder)}

DOC_TYPE_PATTERNS ==
    [dt \in DocTypes |->
      CASE dt = "DividendStatement" ->
             [must |-> <<"Dividend statement">>,
              hints |-> <<"Record Date", "Payment Date", "DRP", "Dividend Reinvestment", "Dividend">>,
              has_exclude |-> FALSE, exclude |-> <<>>,
              has_require_any |-> FALSE, require_any |-> <<>>]
        [] dt = "DistributionStatement" ->
             [must |-> <<"Distribution statement", "Distribution Advice", "Distribution Payment", "DISTRIBUTION STATEMENT">>,
              hints |-> <<"Distribution", "Payment date", "Record date", "ETF", "Managed Fund", "Distribution Rate", "Holding Balance", "Gross Distribution", "Net Distribution">>,
              has_exclude |-> TRUE,
              exclude |-> <<"CONFIRMATION", "CONTRACT NOTE", "BUY", "SELL", "We have bought", "Has bought", "Transaction Type: BUY", "Trade", "Brokerage", "Consideration">>,
              has_require_any |-> FALSE, require_any |-> <<>>]
        [] dt = "CallAndDistributionStatement" ->
             [must |-> <<"Call and Distribution Statement", "CALL AND DISTRIBUTION STATEMENT", "Call & Distribution Statement", "Dist and Capital Call", "DIST AND CAPITAL CALL", "Distribution and Capital Call", "DISTRIBUTION AND CAPITAL CALL">>,
              hints |-> <<"Capital Call", "Call", "Distribution", "Net Cash Distribution", "Notional Capital Call", "Called Capital", "Uncalled Committed Capital", "Dist & Capital Call">>,
              has_exclude |-> FALSE, exclude |-> <<>>,
              has_require_any |-> FALSE, require_any |-> <<>>]
        [] dt = "PeriodicStatement" ->
             [must |-> <<"Periodic Statement">>,
              hints |-> <<"Transactions", "Unit Balance", "Redemption Price", "Buy-Sell Spread", "Fees and Costs">>,
              has_exclude |-> FALSE, exclude |-> <<>>,
              has_require_any |-> FALSE, require_any |-> <<>>]
        [] dt = "BankStatement" ->
             [must |-> <<"Bank Statement">>,
              hints |-> <<"BSB", "Bank Account", "Banking", "Account Balance", "Bank Transaction", "Bank Statement">>,
              has_exclude |-> TRUE,
              exclude |-> <<"CONFIRMATION", "CONTRACT NOTE", "BUY", "SELL", "Trade", "Brokerage", "Consideration", "NAV", "Net Asset Value", "Fund Performance", "Shareholder", "CHESS", "HIN", "SRN", "Portfolio", "Holdings">>,
              has_require_any |-> FALSE, require_any |-> <<>>]
        [] dt = "BuyContract" ->
             [must |-> <<"CONFIRMATION", "BUY CONFIRMATION", "CONTRACT NOTE">>,
              hints |-> <<"We have bought", "Transaction Type: BUY", "Trade Confirmation", "Purchase", "Acquisition", "Buy Order", "Consideration", "Brokerage", "Trade Date", "Settlement Date", "Confirmation Date", "CONFIRMATION">>,
              has_exclude |-> FALSE, exclude |-> <<>>,
              has_require_any |-> TRUE,
              require_any |-> <<"BUY", "We have bought", "Transaction Type: BUY">>]
        [] dt = "SellContract" ->
             [must |-> <<"SELL">>,
              hints |-> <<"Sell Confirmation", "Trade Confirmation", "Sale", "Disposal", "Sell Order", "CONTRACT NOTE", "We have sold", "We confirm the following transaction", "Transaction Type: SELL">>,
              has_exclude |-> FALSE, exclude |-> <<>>,
              has_require_any |-> FALSE, require_any |-> <<>>]
        [] dt = "HoldingStatement" ->
             [must |-> <<"CHESS", "Issuer Sponsored", "SRN", "HIN", "NAV statement", "NAV Statement", "Fund Performance", "Shareholder Value", "Shareholder Activity">>,
              hints |-> <<"Holder Identification Number", "Statement Date", "Holdings", "Portfolio", "Net Asset Value", "NAV per Share", "Shareholder", "Fund Performance", "Opening Balance", "Closing Balance">>,
              has_exclude |-> TRUE,
              exclude |-> <<"CONFIRMATION", "CONTRACT NOTE", "BUY", "SELL", "Trade", "Brokerage", "Consideration", "We have bought", "We have sold">>,
              has_require_any |-> FALSE, require_any |-> <<>>]
        [] dt = "TaxStatement" ->
             [must |-> <<"Annual Tax Statement", "Tax Summary", "AMMA", "AMIT", "NAV & Taxation Statement", "NAV AND TAXATION STATEMENT", "Taxation Statement", "TAXATION STATEMENT", "NAV and Taxation", "NAV AND TAXATION">>,
              hints |-> <<"Tax Year", "Assessable Income", "Tax Return", "Taxation", "Tax Withheld", "Tax Payable">>,
              has_exclude |-> FALSE, exclude |-> <<>>,
              has_require_any |-> FALSE, require_any |-> <<>>]
        [] OTHER ->
             [must |-> <<"Net Asset Summary", "NET ASSET SUMMARY", "NAV Summary", "NAV SUMMARY", "NAV statement", "NAV Statement", "Net Asset Value Summary">>,
              hints |-> <<"Net Asset Value", "NAV", "Unit Price", "Asset Summary", "Asset Value", "Unit Balance", "Total Assets", "Total Liabilities", "NAV per Share", "Fund Performance", "Shareholder Value">>,
              has_exclude |-> TRUE,
              exclude |-> <<"CONFIRMATION", "CONTRACT NOTE", "BUY", "SELL", "Trade", "Brokerage", "Consideration", "Taxation", "Tax Year", "Tax Return">>,
              has_require_any |-> FALSE, require_any |-> <<>>]]

\* m.upper(), h.upper(), excl.upper(), req.upper() of every rule term
UpperPatterns ==
    [dt \in DocTypes |->
      [must |-> MapUpper(DOC_TYPE_PATTERNS[dt].must),
       hints |-> MapUpper(DOC_TYPE_PATTERNS[dt].hints),
       has_exclude |-> DOC_TYPE_PATTERNS[dt].has_exclude,
       exclude |-> MapUpper(DOC_TYPE_PATTERNS[dt].exclude),
       has_require_any |-> DOC_TYPE_PATTERNS[dt].has_require_any,
       require_any |-> MapUpper(DOC_TYPE_PATTERNS[dt].require_any)]]

(***************************************************************************)
(* classify_doc_type (main.py 178-292).  u is upper_text.  A result is     *)
(* <<best_match, best_score>>.                                             *)
(***************************************************************************)
call_distribution_hints ==
    <<"CAPITAL CALL", "CALL", "DISTRIBUTION", "NET CASH DISTRIBUTION", "NOTIONAL CAPITAL CALL",
      "CALLED CAPITAL", "UNCALLED COMMITTED CAPITAL", "DIST & CAPITAL CALL">>

buy_required == <<"BUY", "WE HAVE BOUGHT", "TRANSACTION TYPE: BUY", "HAS BOUGHT">>

buy_hints ==
    <<"WE HAVE BOUGHT", "HAS BOUGHT", "TRANSACTION TYPE: BUY", "TRADE CONFIRMATION", "CONSIDERATION",
      "BROKERAGE", "TRADE DATE", "SETTLEMENT DATE", "CONFIRMATION DATE">>

distribution_hints ==
    <<"DISTRIBUTION", "PAYMENT DATE", "RECORD DATE", "DISTRIBUTION RATE", "HOLDING BALANCE",
      "GROSS DISTRIBUTION", "NET DISTRIBUTION">>

nav_hints ==
    <<"NAV", "NET ASSET VALUE", "UNIT PRICE", "FUND PERFORMANCE", "SHAREHOLDER VALUE",
      "SHAREHOLDER ACTIVITY", "OPENING BALANCE", "CLOSING BALANCE">>

\* lines 187-193
is_call_and_dist(u) ==
    \/ Contains(u, "CALL AND DISTRIBUTION STATEMENT")
    \/ Contains(u, "CALL & DISTRIBUTION STATEMENT")
    \/ Contains(u, "DIST AND CAPITAL CALL")
    \/ Contains(u, "DISTRIBUTION AND CAPITAL CALL")
    \/ (Contains(u, "CAPITAL CALL") /\ Contains(u, "DISTRIBUTION") /\ Contains(u, "STATEMENT"))

\* lines 194-200: best after the call-and-distribution check, from (None, 0)
AfterCallAndDist(u) ==
    LET call_distribution_score == 95 + CountIn(call_distribution_hints, u) * 5
    IN  IF is_call_and_dist(u) /\ call_distribution_score > 0
        THEN <<"CallAndDistributionStatement", call_distribution_score>>
        ELSE <<None, 0>>

\* line 206, the outer condition of the buy check
BuyOuterCondition(u, best) ==
    /\ (Contains(u, "CONFIRMATION") \/ Contains(u, "BUY CONFIRMATION") \/ Contains(u, "CONTRACT NOTE"))
    /\ best[1] # "CallAndDistributionStatement"

\* lines 205-218: <<best, is_buy_contract>>
AfterBuy(u, best) ==
    LET buy_score == 95 + CountIn(buy_hints, u) * 5
    IN  IF BuyOuterCondition(u, best) /\ AnyIn(buy_required, u) /\ buy_score > best[2]
        THEN << <<"BuyContract", buy_score>>, TRUE >>
        ELSE << best, FALSE >>

\* the guard of lines 226-228 without its "bought" phrases
is_confirmation_buy_NoBought(u) ==
    \/ (Contains(u, "CONFIRMATION") /\ Contains(u, "BUY"))
    \/ (Contains(u, "CONTRACT NOTE") /\ Contains(u, "BUY"))

\* lines 226-228
is_confirmation_buy(u) ==
    \/ (Contains(u, "CONFIRMATION") /\ Contains(u, "BUY"))
    \/ (Contains(u, "CONTRACT NOTE") /\ Contains(u, "BUY"))
    \/ (Contains(u, "WE HAVE BOUGHT") \/ Contains(u, "HAS BOUGHT"))

\* line 224
HasDistributionPhrase(u) ==
    \/ Contains(u, "DISTRIBUTION STATEMENT")
    \/ Contains(u, "DISTRIBUTION ADVICE")
    \/ Contains(u, "DISTRIBUTION PAYMENT")

\* lines 223-237
AfterDistribution(u, best, is_buy_contract) ==
    LET distribution_score == 90 + CountIn(distribution_hints, u) * 5
    IN  IF /\ ~is_buy_contract
           /\ best[1] # "CallAndDistributionStatement"
           /\ HasDistributionPhrase(u)
           /\ ~is_confirmation_buy(u)
           /\ distribution_score > best[2]
        THEN <<"DistributionStatement", distribution_score>>
        ELSE best

\* lines 241-243
NavTrigger(u) ==
    \/ Contains(u, "NAV STATEMENT")
    \/ Contains(u, "NAV SUMMARY")
    \/ Contains(u, "NET ASSET SUMMARY")
    \/ (Contains(u, "NAV") /\ Contains(u, "STATEMENT"))
    \/ (Contains(u, "FUND PERFORMANCE") /\ Contains(u, "SHAREHOLDER"))

\* lines 241-249
AfterNav(u, best) ==
    LET nav_score == 95 + CountIn(nav_hints, u) * 5
    IN  IF NavTrigger(u) /\ nav_score > best[2]
        THEN <<"NetAssetSummaryStatement", nav_score>>
        ELSE best

\* the four checks before the generic loop, lines 181-249
ShortCircuit(u) ==
    LET b1 == AfterCallAndDist(u)
        b2 == AfterBuy(u, b1)
        b3 == AfterDistribution(u, b2[1], b2[2])
    IN  AfterNav(u, b3)

\* the loop without its skip of lines 253-257
HighConfidence_Never(best) == FALSE

\* lines 253-257: the loop body is skipped for every doc type
HighConfidence(best) ==
    \/ (best[1] = "CallAndDistributionStatement" /\ best[2] >= 95)
    \/ (best[1] = "DistributionStatement" /\ best[2] >= 90)
    \/ (best[1] = "BuyContract" /\ best[2] >= 90)
    \/ (best[1] = "NetAssetSummaryStatement" /\ best[2] >= 95)

\* lines 260-263
ExcludedBy(dt, u) ==
    UpperPatterns[dt].has_exclude /\ AnyIn(UpperPatterns[dt].exclude, u)

\* lines 266-269
RequireAnyUnmet(dt, u) ==
    UpperPatterns[dt].has_require_any /\ ~AnyIn(UpperPatterns[dt].require_any, u)

\* the scoring with the boost of lines 283-286 lost
GenericScore_NoBoost(dt, u) ==
    LET p == UpperPatterns[dt]
        must_matches == CountIn(p.must, u)
        hint_matches == CountIn(p.hints, u)
    IN  IF must_matches = Len(p.must) THEN 80 + hint_matches * 5
        ELSE IF must_matches > 0 THEN 50 + hint_matches * 5
        ELSE IF hint_matches > 0 THEN 30 + hint_matches * 5
        ELSE 0

\* lines 271-286
GenericScore(dt, u) ==
    LET p == UpperPatterns[dt]
        must_matches == CountIn(p.must, u)
        hint_matches == CountIn(p.hints, u)
        score == IF must_matches = Len(p.must) THEN 80 + hint_matches * 5
                 ELSE IF must_matches > 0 THEN 50 + hint_matches * 5
                 ELSE IF hint_matches > 0 THEN 30 + hint_matches * 5
                 ELSE 0
    IN  IF p.has_require_any /\ score > 0
        THEN score + CountIn(p.require_any, u) * 10
        ELSE score

\* the loop body with its three `continue` guards lost
LoopBody_NoGuards(dt, u, best) ==
    LET score == GenericScore(dt, u)
    IN  IF score > 0 /\ score > best[2] THEN <<dt, score>> ELSE best

\* one iteration of the loop at line 251
LoopBody(dt, u, best) ==
    IF HighConfidence(best) THEN best
    ELSE IF ExcludedBy(dt, u) THEN best
    ELSE IF RequireAnyUnmet(dt, u) THEN best
    ELSE LET score == GenericScore(dt, u)
         IN  IF score > 0 /\ score > best[2] THEN <<dt, score>> ELSE best

RECURSIVE GenericLoop(_, _, _)
GenericLoop(i, u, best) ==
    IF i > Len(DocTypeOrder) THEN best
    ELSE GenericLoop(i + 1, u, LoopBody(DocTypeOrder[i], u, best))

classify_upper(u) == GenericLoop(1, u, ShortCircuit(u))

\* what stands for `score` in an iteration that a `continue` of lines 253-269 ends
Skipped == -1

\* the value of `score` at line 288 in the iteration of doc type dt
LoopScore(dt, u, best) ==
    IF HighConfidence(best) \/ ExcludedBy(dt, u) \/ RequireAnyUnmet(dt, u) THEN Skipped
    ELSE GenericScore(dt, u)

RECURSIVE ScoresFrom(_, _, _)
\* the values of `score` in the iterations from the i-th on, in the order of the rule table
ScoresFrom(i, u, best) ==
    IF i > Len(DocTypeOrder) THEN <<>>
    ELSE <<LoopScore(DocTypeOrder[i], u, best)>>
         \o ScoresFrom(i + 1, u, LoopBody(DocTypeOrder[i], u, best))

loop_scores(u) == ScoresFrom(1, u, ShortCircuit(u))

classify_doc_type(text_content) == classify_upper(Upper(text_content))

(***************************************************************************)
(* parse_date (main.py 389-422).  datetime.strptime accepts a token for a  *)
(* format when the separators and the year width are those of the format,  *)
(* day and month are in range and the date exists.                         *)
(***************************************************************************)
IsLeap(y) == (y % 4 = 0 /\ y % 100 # 0) \/ y % 400 = 0

DaysInMonth(y, m) ==
    IF m = 2 THEN (IF IsLeap(y) THEN 29 ELSE 28)
    ELSE IF m \in {4, 6, 9, 11} THEN 30 ELSE 31

\* datetime(y, m, d) does not raise ValueError
ValidDate(y, m, d) ==
    /\ y >= 1 /\ y <= 9999
    /\ m >= 1 /\ m <= 12
    /\ d >= 1 /\ d <= DaysInMonth(y, m)

\* %Y of strftime: the year as a decimal number, which the C library does not
\* pad (glibc prints the year 999 as "999")
YearStr(y) ==
    IF y >= 1000 THEN Digits4(y)
    ELSE IF y >= 100 THEN Digit(y \div 100) \o Digits2(y % 100)
    ELSE IF y >= 10 THEN Digits2(y)
    ELSE Digit(y)

\* dt.strftime("%Y-%m-%d")
ISO(y, m, d) == YearStr(y) \o "-" \o Digits2(m) \o "-" \o Digits2(d)

MonthNames ==
    <<"january", "february", "march", "april", "may", "june", "july", "august",
      "september", "october", "november", "december">>

MonthAbbrs ==
    <<"jan", "feb", "mar", "apr", "may", "jun", "jul", "aug", "sep", "oct", "nov", "dec">>

\* %B / %b: the month a word names, 0 when it names none (case-insensitive)
MonthOf(names, word) ==
    IF \E i \in 1..12 : names[i] = Lower(word)
    THEN CHOOSE i \in 1..12 : names[i] = Lower(word)
    ELSE 0

\* %y: 00-68 is 2000-2068, 69-99 is 1969-1999
TwoDigitYear(yy) == IF yy <= 68 THEN 2000 + yy ELSE 1900 + yy

\* the formats list with the US formats tried first
formats_MonthFirst ==
    <<"%m/%d/%Y", "%m-%d-%Y", "%d/%m/%Y", "%d-%m-%Y", "%d/%m/%y", "%d %B %Y", "%d %b %Y",
      "%Y-%m-%d", "%Y/%m/%d">>

\* the formats list, lines 397-408, in order
formats ==
    <<"%d/%m/%Y", "%d-%m-%Y", "%d/%m/%y", "%d %B %Y", "%d %b %Y", "%Y-%m-%d", "%Y/%m/%d",
      "%m/%d/%Y", "%m-%d-%Y">>

SameSep(t, sep) == t.s1 = sep /\ t.s2 = sep

\* the date if it exists, <<>> for ValueError
IfValid(ymd) == IF ValidDate(ymd[1], ymd[2], ymd[3]) THEN ymd ELSE <<>>

\* datetime.strptime(date_str, fmt) followed by lines 414-418:
\* <<year, month, day>>, or <<>> for ValueError
Strptime(t, fmt) ==
    IfValid(
          CASE fmt = "%d/%m/%Y" /\ t.shape = "DMY" /\ SameSep(t, "/") -> <<t.y, t.b, t.a>>
            [] fmt = "%d-%m-%Y" /\ t.shape = "DMY" /\ SameSep(t, "-") -> <<t.y, t.b, t.a>>
            [] fmt = "%d/%m/%y" /\ t.shape = "DMY2" /\ SameSep(t, "/") ->
                 <<(IF TwoDigitYear(t.y) < 1950 THEN TwoDigitYear(t.y) + 100
                    ELSE TwoDigitYear(t.y)), t.b, t.a>>
            [] fmt = "%d %B %Y" /\ t.shape = "TXT" -> <<t.y, MonthOf(MonthNames, t.mon), t.a>>
            [] fmt = "%d %b %Y" /\ t.shape = "TXT" -> <<t.y, MonthOf(MonthAbbrs, t.mon), t.a>>
            [] fmt = "%Y-%m-%d" /\ t.shape = "YMD" /\ SameSep(t, "-") -> <<t.y, t.a, t.b>>
            [] fmt = "%Y/%m/%d" /\ t.shape = "YMD" /\ SameSep(t, "/") -> <<t.y, t.a, t.b>>
            [] fmt = "%m/%d/%Y" /\ t.shape = "DMY" /\ SameSep(t, "/") -> <<t.y, t.a, t.b>>
            [] fmt = "%m-%d-%Y" /\ t.shape = "DMY" /\ SameSep(t, "-") -> <<t.y, t.a, t.b>>
            [] OTHER -> <<0, 0, 0>>)

RECURSIVE TryFormats(_, _)
\* line 419 if format i parsed the token, else the next format
Formatted(t, i, dt) == IF dt # <<>> THEN ISO(dt[1], dt[2], dt[3]) ELSE TryFormats(t, i + 1)

\* the loop at lines 410-420 from format i on
TryFormats(t, i) ==
    IF i > Len(formats) THEN None ELSE Formatted(t, i, Strptime(t, formats[i]))

parse_date(date_str) == TryFormats(date_str, 1)

(***************************************************************************)
(* extract_labeled_date, extract_generic_date, extract_date (336-386).     *)
(* A regular expression captures a date token, or a prefix of it, or       *)
(* nothing (NoDate).                                                       *)
(***************************************************************************)
DATE_PRIORITIES ==
    [dt \in DocTypes |->
      CASE dt = "DividendStatement" -> <<"Payment Date", "Record Date", "Statement Date", "Date">>
        [] dt = "DistributionStatement" -> <<"Payment Date", "Record Date", "Distribution Date", "Statement Date", "Date">>
        [] dt = "CallAndDistributionStatement" -> <<"Statement Date", "Date">>
        [] dt = "PeriodicStatement" -> <<"Statement Date", "Period End", "Date">>
        [] dt = "BankStatement" -> <<"Statement Date", "Period End", "Date">>
        [] dt = "BuyContract" -> <<"Confirmation Date", "Transaction Date", "Trade Date", "Settlement Date", "As at Date", "Date">>
        [] dt = "SellContract" -> <<"Confirmation Date", "Transaction Date", "Trade Date", "Settlement Date", "As at Date", "Date">>
        [] dt = "HoldingStatement" -> <<"Statement Date", "Date">>
        [] dt = "TaxStatement" -> <<"Statement Date", "Tax Year", "Date">>
        [] OTHER -> <<"Statement Date", "As at Date", "Date">>]

\* DATE_PRIORITIES.get(doc_type, ["Date"])
PrioritiesOf(doc_type) ==
    IF doc_type \in DocTypes THEN DATE_PRIORITIES[doc_type] ELSE <<"Date">>

EndsWith(t, p) == Len(t) >= Len(p) /\ SubSeq(t, Len(t) - Len(p) + 1, Len(t)) = p

\* (?i)label[:\s]+ directly before the token of the line
LabelMatches(l, label) == l.tok # NoDate /\ EndsWith(Upper(l.s), Upper(label))

\* the group captured by the i-th pattern of lines 355-360 on a token:
\* 1 D/M/YYYY, 2 YYYY/M/D, 3 D word YYYY, 4 D/M/YY, which also matches the
\* first two digits of a four-digit year
LabeledCapture(i, t) ==
    CASE i = 1 /\ t.shape = "DMY" -> t
      [] i = 2 /\ t.shape = "YMD" -> t
      [] i = 3 /\ t.shape = "TXT" -> t
      [] i = 4 /\ t.shape = "DMY2" -> t
      [] i = 4 /\ t.shape = "DMY" -> [t EXCEPT !.shape = "DMY2", !.y = t.y \div 100]
      [] OTHER -> NoDate

\* the group captured by the i-th pattern of lines 373-377, which end in \b
GenericCapture(i, t) ==
    CASE i = 1 /\ t.shape = "YMD" -> t
      [] i = 2 /\ t.shape = "DMY" -> t
      [] i = 3 /\ t.shape = "TXT" -> t
      [] OTHER -> NoDate

\* re.search: the first of the lines the pattern matches, 0 when there is none
FirstLine(matching) ==
    IF matching = {} THEN 0
    ELSE CHOOSE i \in matching : \A j \in matching : i <= j

\* lines 364-367: parse_date of the group captured on line k, None if k is 0
ParsedLabeled(lines, i, k) ==
    IF k = 0 THEN None ELSE parse_date(LabeledCapture(i, lines[k].tok))

RECURSIVE LabeledFrom(_, _, _)
\* the loop at lines 362-367 from pattern i on
LabeledFrom(lines, label, i) ==
    IF i > 4 THEN None
    ELSE OrElse(ParsedLabeled(lines, i, FirstLine({j \in 1..Len(lines) :
                    LabelMatches(lines[j], label) /\ LabeledCapture(i, lines[j].tok) # NoDate})),
                LabeledFrom(lines, label, i + 1))

extract_labeled_date(lines, label) == LabeledFrom(lines, label, 1)

\* lines 381-384: parse_date of the group captured on line k, None if k is 0
ParsedGeneric(lines, i, k) ==
    IF k = 0 THEN None ELSE parse_date(GenericCapture(i, lines[k].tok))

RECURSIVE GenericFrom(_, _)
\* the loop at lines 379-384 from pattern i on
GenericFrom(lines, i) ==
    IF i > 3 THEN None
    ELSE OrElse(ParsedGeneric(lines, i, FirstLine({j \in 1..Len(lines) :
                    GenericCapture(i, lines[j].tok) # NoDate})),
                GenericFrom(lines, i + 1))

extract_generic_date(lines) == GenericFrom(lines, 1)

RECURSIVE LabelsFrom(_, _, _)
\* the loop at lines 343-346 from priority i on
LabelsFrom(lines, priorities, i) ==
    IF i > Len(priorities) THEN extract_generic_date(lines)
    ELSE OrElse(extract_labeled_date(lines, priorities[i]), LabelsFrom(lines, priorities, i + 1))

\* `not doc_type` holds for None and for the empty string
extract_date(lines, doc_type) ==
    IF doc_type = None \/ doc_type = "" THEN extract_generic_date(lines)
    ELSE LabelsFrom(lines, PrioritiesOf(doc_type), 1)

(***************************************************************************)
(* detect_issuer, extract_account_last4, the ASX code, title_case and       *)
(* build_filename, on the text as a string.                                *)
(***************************************************************************)
OneOrMore(name) == Cls(name, 1, Unbounded, FALSE)

ZeroOrMore(name) == Cls(name, 0, Unbounded, FALSE)

Lits(words) == Alt([i \in 1..Len(words) |-> <<Lit(words[i])>>])

ISSUERS ==
    [canonical |-> <<"Computershare", "Link Market Services", "Automic", "BoardRoom",
                     "CommSec", "CMC Markets", "nabtrade", "Bell Potter", "Vanguard",
                     "iShares", "BlackRock", "Betashares", "Magellan">>,
     normalize |-> << <<"Computershare Limited", "Computershare">>,
                      <<"Link Market Services Limited", "Link Market Services">>,
                      <<"CMC Markets Stockbroking", "CMC Markets">>,
                      <<"Bell Potter Securities", "Bell Potter">>,
                      <<"BlackRock Investment Management", "BlackRock">>,
                      <<"iShares by BlackRock", "iShares">> >>]

SecurityKeyword ==
    Alt(<< <<Lit("Security"), OneOrMore("\\s"), Lit("Description")>>,
           <<Lit("Investment")>>, <<Lit("Security")>>, <<Lit("Code")>> >>)

NameStart == Cls("[A-Z](?i)", 1, 1, FALSE)

NameChars(min) == Cls("[A-Za-z0-9\\s&.,()-]", min, Unbounded, TRUE)

StopWords(words) == Alt(<< <<Lit("\n")>>, <<EndOfString>> >> \o [i \in 1..Len(words) |-> <<Lit(words[i])>>])

\* the four patterns of detect_issuer, each as prefix, group 1, suffix
IssuerPatterns ==
    << [pre |-> <<SecurityKeyword, OneOrMore("[:\\s]")>>,
        group |-> <<NameStart, NameChars(1)>>,
        post |-> <<StopWords(<<"Security", "Investment", "Code", "Consideration", "Brokerage", "Trade">>)>>],
       [pre |-> <<Lit("We"), OneOrMore("\\s"), Lit("have"), OneOrMore("\\s"),
                  Lits(<<"bought", "sold">>), OneOrMore("[:\\s]")>>,
        group |-> <<NameStart, NameChars(1)>>,
        post |-> <<StopWords(<<"Security", "Investment", "Code", "Consideration", "Brokerage">>)>>],
       [pre |-> <<Lits(<<"Description", "Name">>), OneOrMore("[:\\s]")>>,
        group |-> <<NameStart, NameChars(5)>>,
        post |-> <<StopWords(<<"Security", "Investment", "Code", "Consideration", "Brokerage", "Trade">>)>>],
       [pre |-> <<WordBoundary>>,
        group |-> <<NameStart, NameChars(10),
                    Lits(<<"Ltd", "Limited", "Trust", "Group", "Corporation", "Corp", "Company",
                           "Co", "Holdings", "Holdings Ltd", "Pty Ltd", "PTY LTD">>)>>,
        post |-> <<Alt(<< <<OneOrMore("\\s"), Lit("FRN")>>, <<OneOrMore("\\s"), Lit("Callable")>>,
                          <<OneOrMore("\\s"), Lit("Matures")>>, <<EndOfString>>, <<Lit("\n")>> >>)>>] >>

\* lines 313-319: the clean-up of a captured name
CleanIssuerName(captured) ==
    LET a == Strip(captured)
        b == Sub(<<OneOrMore("\\s"), Lits(<<"FRN", "Callable", "Matures", "on", "at">>),
                   ZeroOrMore("."), EndOfString>>, "", a)
        c == Sub(<<OneOrMore("\\s"), Lit("("), ZeroOrMore("[^)]"), Lit(")")>>, "", b)
        d == Strip(c)
    IN  Sub(<<StartOfString, SecurityKeyword, OneOrMore("[:\\s]")>>, "", d)

RECURSIVE IssuerFromPatterns(_, _)
\* lines 321-322: the cleaned name is returned if it is long enough and a name
IssuerIfNamed(text_content, i, found, issuer_name) ==
    IF found /\ Len(issuer_name) > 5 /\ Upper(issuer_name) \notin {"UNKNOWN", "N/A", "NONE"}
    THEN issuer_name
    ELSE IssuerFromPatterns(text_content, i + 1)

\* lines 311-313: the match of pattern i and its group 1
IssuerFromMatch(text_content, i, m) ==
    IssuerIfNamed(text_content, i, m.found, CleanIssuerName(Group1(text_content, m)))

IssuerFromPatterns(text_content, i) ==
    IF i > Len(IssuerPatterns) THEN None
    ELSE IssuerFromMatch(text_content, i,
                         Search(IssuerPatterns[i].pre, IssuerPatterns[i].group,
                                IssuerPatterns[i].post, text_content))

RECURSIVE FirstVariant(_, _)
FirstVariant(u, i) ==
    IF i > Len(ISSUERS.normalize) THEN None
    ELSE IF Contains(u, Upper(ISSUERS.normalize[i][1])) THEN ISSUERS.normalize[i][2]
         ELSE FirstVariant(u, i + 1)

RECURSIVE FirstCanonical(_, _)
FirstCanonical(u, i) ==
    IF i > Len(ISSUERS.canonical) THEN None
    ELSE IF Contains(u, Upper(ISSUERS.canonical[i])) THEN ISSUERS.canonical[i]
         ELSE FirstCanonical(u, i + 1)

detect_issuer(text_content, doc_type) ==
    OrElse(IF doc_type \in {"BuyContract", "SellContract"}
           THEN IssuerFromPatterns(text_content, 1) ELSE None,
           OrElse(FirstVariant(Upper(text_content), 1), FirstCanonical(Upper(text_content), 1)))

AccountId == Cls("[A-Z0-9-](?i)", 6, Unbounded, FALSE)

ACCOUNT_PATTERNS ==
    << <<Alt(<< <<Lit("HIN")>>, <<Lit("SRN")>>, <<Lit("Account")>>,
                <<Lit("Holder"), Opt(<< <<OneOrMore("\\s"), Lit("ID")>> >>)>> >>),
         ZeroOrMore("[:\\s]")>>,
       <<Alt(<< <<Lit("Account"), OneOrMore("\\s"), Lit("Number")>>,
                <<Lit("Account"), OneOrMore("\\s"), Lit("No"), Cls("\\.", 0, 1, FALSE)>> >>),
         ZeroOrMore("[:\\s]")>> >>

RECURSIVE AccountFrom(_, _)
\* lines 431-432: the last four characters of an identifier of four or more
Last4(text_content, i, found, account) ==
    IF found /\ Len(account) >= 4
    THEN SubSeq(account, Len(account) - 3, Len(account))
    ELSE AccountFrom(text_content, i + 1)

\* lines 428-430: the match of pattern i and its group 1 without punctuation
AccountFromMatch(text_content, i, m) ==
    Last4(text_content, i, m.found,
          Sub(<<Cls("[^A-Z0-9]", 1, 1, FALSE)>>, "", Group1(text_content, m)))

AccountFrom(text_content, i) ==
    IF i > Len(ACCOUNT_PATTERNS) THEN None
    ELSE AccountFromMatch(text_content, i,
                          Search(ACCOUNT_PATTERNS[i], <<AccountId>>, <<>>, text_content))

extract_account_last4(text_content) == AccountFrom(text_content, 1)

\* lines 795-797
UpperGroup1(text_content, m) == IF m.found THEN Upper(Group1(text_content, m)) ELSE None

AsxCode(text_content) ==
    UpperGroup1(text_content,
                Search(<<WordBoundary,
                         Alt(<< <<Lit("ASX"), OneOrMore("\\s"), Lit("Code")>>, <<Lit("Code")>> >>),
                         OneOrMore("[:\\s]")>>,
                       <<Cls("[A-Z](?i)", 3, 6, FALSE)>>, <<WordBoundary>>, text_content))

CompanySuffix ==
    <<WordBoundary,
      Alt(<< <<Lit("Pty"), Cls("\\.", 0, 1, FALSE), ZeroOrMore("\\s"), Lit("Ltd"), Cls("\\.", 0, 1, FALSE)>>,
             <<Lit("PTY"), Cls("\\.", 0, 1, FALSE), ZeroOrMore("\\s"), Lit("LTD"), Cls("\\.", 0, 1, FALSE)>>,
             <<Lit("Limited")>>,
             <<Lit("Ltd"), Cls("\\.", 0, 1, FALSE)>> >>),
      WordBoundary>>

RECURSIVE TitleWords(_)
\* word.capitalize() of the first n characters, then the rest
Capitalized(t, n) ==
    Upper(SubSeq(t, 1, 1)) \o Lower(SubSeq(t, 2, n)) \o TitleWords(SubSeq(t, n + 1, Len(t)))

\* t without its first sep characters if they are separators, else its first
\* word capitalized and the rest
AfterSeparators(t, sep) ==
    IF sep > 0 THEN TitleWords(SubSeq(t, sep + 1, Len(t)))
    ELSE Capitalized(t, FirstOf({k \in 1..Len(t) : InClass("[\\s-]", CharAt(t, k))}, Len(t) + 1) - 1)

\* re.split(r'[\s-]+', text), each word capitalized, joined
TitleWords(t) ==
    IF t = "" THEN "" ELSE AfterSeparators(t, RunLength(t, 1, "[\\s-]", Unbounded))

\* result if result else "Unknown"
OrUnknown(result) == IF result = "" THEN "Unknown" ELSE result

\* title_case without the placeholder for a missing string
title_case_NoDefault(str) ==
    IF str = None \/ str = "" THEN ""
    ELSE OrUnknown(TitleWords(Sub(<<Cls("[^\\w\\s-]", 1, 1, FALSE)>>, "",
                                  Sub(CompanySuffix, "", str))))

title_case(str) ==
    IF str = None \/ str = "" THEN "Unknown"
    ELSE OrUnknown(TitleWords(Sub(<<Cls("[^\\w\\s-]", 1, 1, FALSE)>>, "",
                                  Sub(CompanySuffix, "", str))))

\* the doc types build_filename spells itself (lines 499-518)
KnownTitles ==
    {"DistributionStatement", "DividendStatement", "BuyContract", "SellContract",
     "HoldingStatement", "TaxStatement", "BankStatement", "PeriodicStatement",
     "NetAssetSummaryStatement"}

\* build_filename with the date placeholder lost
build_filename_NoPlaceholder(fields) ==
    LET date_part == IF fields.date_iso # None THEN fields.date_iso ELSE ""
        issuer_title == title_case(fields.issuer)
        doc_type_title ==
            IF fields.doc_type = "CallAndDistributionStatement" THEN "DistributionAndCapitalCallStatement"
            ELSE IF fields.doc_type \in KnownTitles THEN fields.doc_type
            ELSE IF fields.doc_type # None /\ fields.doc_type # ""
                 THEN title_case(Replace(Replace(fields.doc_type, "Statement", ""), "Contract", ""))
                 ELSE "Unknown"
    IN  date_part \o "_" \o issuer_title \o "_" \o doc_type_title \o ".pdf"

build_filename(fields) ==
    LET date_part == IF fields.date_iso # None /\ fields.date_iso # "" THEN fields.date_iso
                     ELSE "YYYY-MM-DD"
        issuer_title == title_case(fields.issuer)
        doc_type_title ==
            IF fields.doc_type = "CallAndDistributionStatement" THEN "DistributionAndCapitalCallStatement"
            ELSE IF fields.doc_type \in KnownTitles THEN fields.doc_type
            ELSE IF fields.doc_type # None /\ fields.doc_type # ""
                 THEN title_case(Replace(Replace(fields.doc_type, "Statement", ""), "Contract", ""))
                 ELSE "Unknown"
    IN  date_part \o "_" \o issuer_title \o "_" \o doc_type_title \o ".pdf"


(***************************************************************************)
(* State.                                                                  *)
(***************************************************************************)
VARIABLES
    text,       \* the lines of the text being processed
    pc,         \* "ready" before the operation has run, "done" after
    classified, \* <<best_match, best_score>> returned by classify_doc_type
    scored,     \* the value `score` had in each iteration of classify_doc_type's loop
    arg_date_str,   \* the token handed to parse_date
    parsed,     \* what parse_date returned
    arg_doc_type,   \* the doc_type handed to extract_date or to detect_issuer
    date_iso,   \* what extract_date returned
    cache,      \* _file_cache: its entries in insertion order, each with its key
    llm,        \* what the external services answered in the last request
    response,   \* the fields and the filename of the last OCRResponse
    path,       \* how the last request was served: "hit", "invalidated", "miss"
    evicted,    \* the keys the last request dropped at the capacity bound
    pending,    \* the requests that have arrived and whose handler has not run yet
    arg_fields,       \* the fields handed to build_filename
    built_filename,   \* what build_filename returned
    rebuilt_filename, \* what a second call of build_filename returned
    detected_issuer,  \* what detect_issuer returned
    edits,      \* the "edits" list of the learning store's file
    query,      \* the arguments of the last call of find_similar_edits
    similar     \* what that call gave: its examples with their scores, or that it raised

classifyVars == <<classified, scored>>
dateVars == <<arg_date_str, parsed, arg_doc_type, date_iso>>
requestVars == <<cache, llm, response, path, evicted, pending>>
filenameVars == <<arg_fields, built_filename, rebuilt_filename>>
issuerVars == <<detected_issuer>>
learningVars == <<edits, query, similar>>

vars == <<text, pc, classifyVars, dateVars, requestVars, filenameVars, issuerVars, learningVars>>

ClassifyIdle == classified = <<None, 0>> /\ scored = <<>>

DateIdle == arg_date_str = NoDate /\ parsed = None /\ arg_doc_type = None /\ date_iso = None

\* what an external service that is unavailable, or whose answer does not parse, returns
NoResult == [returned |-> FALSE, doc_type |-> None, issuer |-> None, date_iso |-> None,
             suggested_filename |-> None]

NoExternal == [combined |-> NoResult, separate |-> NoResult, filename |-> None]

EmptyFields ==
    [doc_type |-> None, issuer |-> None, asx_code |-> None, date_iso |-> None,
     account_last4 |-> None]

NoResponse == [fields |-> EmptyFields, suggested_filename |-> None]

RequestIdle ==
    /\ cache = <<>> /\ llm = NoExternal /\ response = NoResponse /\ path = "none" /\ evicted = {}
    /\ pending = {}

FilenameIdle == arg_fields = EmptyFields /\ built_filename = None /\ rebuilt_filename = None

IssuerIdle == detected_issuer = None

LearningIdle ==
    /\ edits = <<>>
    /\ query = [fields |-> EmptyFields, text_sample |-> "", max_examples |-> 0]
    /\ similar = [called |-> FALSE, raised |-> FALSE, examples |-> <<>>]

(***************************************************************************)
(* Classifier inputs: every text made of at most MaxLines lines of         *)
(* ClassifyVocab, in vocabulary order.                                     *)
(***************************************************************************)
MaxLines == 3

ClassifyVocab ==
    << Line("MIDSEC PTY LTD has bought for you"),
       Line("CONFIRMATION"),
       Line("Buy"),
       Line("Contract Note"),
       Line("MIDSEC PTY LTD has sold for you"),
       Line("SELL"),
       Line("We have sold"),
       Line("Distribution Statement"),
       Line("Distribution Advice"),
       Line("Call and Distribution Statement"),
       Line("Capital Call"),
       Line("NAV Statement"),
       Line("Fund Performance"),
       Line("Shareholder"),
       Line("Bank Statement"),
       Line("Bank Statement BSB 062-000 Banking: Bank Account Balance"),
       Line("Munro Global Growth Fund Complex ETF"),
       Line("Taxation"),
       Line("Dividend statement"),
       Line("Periodic Statement"),
       Line("Buy-Sell Spread"),
       Line("CHESS"),
       Line("We have bought Transaction Type: BUY Consideration Brokerage Trade Date Settlement Date"),
       Line("Sell Order Sale Disposal"),
       Dated("Trade Date", Num("DMY", 9, "/", 5, "/", 2025)),
       Line("Page 1 of 2") >>

RECURSIVE Pick(_, _)
\* the lines of vocab whose index is in idx, in vocabulary order
Pick(vocab, idx) ==
    IF idx = {} THEN <<>>
    ELSE LET i == CHOOSE j \in idx : \A k \in idx : j <= k
         IN  <<vocab[i]>> \o Pick(vocab, idx \ {i})

RECURSIVE ChoicesUpTo(_, _)
\* the sets of at most k of the first n positions
ChoicesUpTo(n, k) ==
    IF k = 0 THEN {{}}
    ELSE ChoicesUpTo(n, k - 1) \cup {x \cup {i} : x \in ChoicesUpTo(n, k - 1), i \in 1..n}

ClassifyTexts ==
    {Pick(ClassifyVocab, idx) : idx \in ChoicesUpTo(Len(ClassifyVocab), MaxLines)}

InitClassify ==
    /\ text \in ClassifyTexts
    /\ pc = "ready"
    /\ ClassifyIdle
    /\ DateIdle
    /\ RequestIdle
    /\ FilenameIdle
    /\ IssuerIdle
    /\ LearningIdle

Classify ==
    /\ pc = "ready"
    /\ classified' = classify_doc_type(TextStr(text))
    /\ scored' = loop_scores(Upper(TextStr(text)))
    /\ pc' = "done"
    /\ UNCHANGED <<learningVars, text, dateVars, requestVars, filenameVars, issuerVars>>

\* lines 766-770 and 897: the fields found by the rules alone for the classified text,
\* and the filename build_filename gives them
RuleFieldsOf(lines, rule_doc_type) ==
    [EmptyFields EXCEPT !.doc_type = rule_doc_type,
                        !.issuer = detect_issuer(TextStr(lines), rule_doc_type),
                        !.date_iso = extract_date(lines, rule_doc_type),
                        !.account_last4 = extract_account_last4(TextStr(lines))]

NameClassified ==
    /\ pc = "done"
    /\ arg_fields' = RuleFieldsOf(text, classified[1])
    /\ built_filename' = build_filename(arg_fields')
    /\ pc' = "named"
    /\ UNCHANGED <<learningVars, text, classifyVars, dateVars, requestVars, rebuilt_filename, issuerVars>>

NextClassify == Classify

SpecClassify == InitClassify /\ [][NextClassify]_vars


(***************************************************************************)
(* The rule-based filename: every text of at most MaxNamedLines lines of   *)
(* ClassifyVocab is classified, then named from the values the rules find. *)
(***************************************************************************)
MaxNamedLines == 2

NamedTexts ==
    {Pick(ClassifyVocab, idx) :
        idx \in ChoicesUpTo(Len(ClassifyVocab), MaxNamedLines)}

InitNamed ==
    /\ text \in NamedTexts
    /\ pc = "ready"
    /\ ClassifyIdle
    /\ DateIdle
    /\ RequestIdle
    /\ FilenameIdle
    /\ IssuerIdle
    /\ LearningIdle

NextNamed == Classify \/ NameClassified

SpecNamed == InitNamed /\ [][NextNamed]_vars


(***************************************************************************)
(* Date inputs.  parse_date is applied to every token of DateTokens;       *)
(* extract_date to every text of at most MaxDateLines lines of DateVocab,  *)
(* in any order, for each doc type of DateDocTypes.                        *)
(***************************************************************************)
MaxDateLines == 2

DayMonthValues == {0, 1, 7, 11, 12, 13, 29, 30, 31, 32}

Years == {2024, 2025}

Separators == {"/", "-"}

DateTokens ==
    {Num(sh, a, s1, b, s2, y) :
        sh \in {"DMY", "YMD"}, a \in DayMonthValues, b \in DayMonthValues, y \in Years,
        s1 \in Separators, s2 \in Separators}
    \cup {Num("DMY2", a, s1, b, s1, y) :
        a \in {7, 11, 31}, b \in {7, 13}, y \in {0, 25, 49, 50, 68, 69, 99}, s1 \in Separators}
    \cup {Txt(d, m, y) : d \in {9, 31}, m \in {"May", "NOV", "November", "Sept", "june"}, y \in Years}

DateLabels ==
    {"Confirmation Date", "Transaction Date", "TRADE DATE", "Settlement Date", "As at Date",
     "Date", "Issued"}

LineTokens ==
    { Num("DMY", 11, "/", 7, "/", 2025),
      Num("DMY", 32, "/", 1, "/", 2025),
      Num("DMY", 29, "/", 2, "/", 2025),
      Txt(9, "May", 2025),
      Num("YMD", 5, "-", 16, "-", 999) }

DateVocab == {Dated(label, tok) : label \in DateLabels, tok \in LineTokens}

DateTexts == UNION {[1..n -> DateVocab] : n \in 0..MaxDateLines}

DateDocTypes == {"BuyContract", "SellContract", None}

InitDate ==
    /\ pc = "ready"
    /\ ClassifyIdle
    /\ RequestIdle
    /\ FilenameIdle
    /\ IssuerIdle
    /\ LearningIdle
    /\ parsed = None
    /\ date_iso = None
    /\ \/ (arg_date_str \in DateTokens /\ text = <<>> /\ arg_doc_type = None)
       \/ (arg_date_str = NoDate /\ text \in DateTexts /\ arg_doc_type \in DateDocTypes)

ParseDate ==
    /\ pc = "ready"
    /\ arg_date_str # NoDate
    /\ parsed' = parse_date(arg_date_str)
    /\ pc' = "done"
    /\ UNCHANGED <<learningVars, text, classifyVars, arg_date_str, arg_doc_type, date_iso, requestVars, filenameVars,
                   issuerVars>>

ExtractDate ==
    /\ pc = "ready"
    /\ arg_date_str = NoDate
    /\ date_iso' = extract_date(text, arg_doc_type)
    /\ pc' = "done"
    /\ UNCHANGED <<learningVars, text, classifyVars, arg_date_str, arg_doc_type, parsed, requestVars, filenameVars,
                   issuerVars>>

NextDate == ParseDate \/ ExtractDate

SpecDate == InitDate /\ [][NextDate]_vars

(***************************************************************************)
(* ocr_extract, from the extracted text on (lines 630-999).  u is the text *)
(* in upper case; st is the pair of the local variables fields and         *)
(* suggested_filename.                                                     *)
(***************************************************************************)
\* Python's "not x" for an optional string
Falsy(x) == x = None \/ x = ""

\* name and (one of the terms in name.lower())
NameHas(name, terms) == ~Falsy(name) /\ \E term \in terms : Contains(Lower(name), term)

\* the reconciler without its buy-confirmation evidence
is_buy_contract_check_Never(u) == FALSE

is_buy_contract_check(u) ==
    /\ Contains(u, "CONFIRMATION") \/ Contains(u, "BUY CONFIRMATION") \/ Contains(u, "CONTRACT NOTE")
    /\ \/ Contains(u, "BUY") \/ Contains(u, "WE HAVE BOUGHT")
       \/ Contains(u, "HAS BOUGHT") \/ Contains(u, "TRANSACTION TYPE: BUY")

is_call_and_distribution_Never(u) == FALSE

is_call_and_distribution(u) ==
    Contains(u, "CALL AND DISTRIBUTION STATEMENT") \/ Contains(u, "CALL & DISTRIBUTION STATEMENT")

is_distribution_statement(u) ==
    /\ \/ Contains(u, "DISTRIBUTION STATEMENT") \/ Contains(u, "DISTRIBUTION ADVICE")
       \/ Contains(u, "DISTRIBUTION PAYMENT")
    /\ ~is_call_and_distribution(u)
    /\ ~is_buy_contract_check(u)

\* lines 710-743: the combined call and its immediate correction
AfterCombined(u, combined) ==
    IF ~combined.returned THEN [fields |-> EmptyFields, suggested_filename |-> None]
    ELSE LET updated == [EmptyFields EXCEPT !.doc_type = combined.doc_type,
                                            !.issuer = combined.issuer,
                                            !.date_iso = combined.date_iso]
             name == combined.suggested_filename
         IN  IF is_buy_contract_check(u)
             THEN [fields |-> [updated EXCEPT !.doc_type = "BuyContract"],
                   suggested_filename |->
                       IF NameHas(name, {"distribution-statement", "distributionstatement"})
                       THEN None ELSE name]
             ELSE IF is_call_and_distribution(u)
             THEN [fields |-> [updated EXCEPT !.doc_type = "CallAndDistributionStatement"],
                   suggested_filename |->
                       IF NameHas(name, {"buy-contract", "sell-contract"}) THEN None ELSE name]
             ELSE IF is_distribution_statement(u)
             THEN [fields |-> [updated EXCEPT !.doc_type = "DistributionStatement"],
                   suggested_filename |->
                       IF NameHas(name, {"buy-contract", "sell-contract"}) THEN None ELSE name]
             ELSE [fields |-> updated, suggested_filename |-> name]

\* line 746: extract_with_llm is called when there is no filename yet
SeparateCalled(st) == Falsy(st.suggested_filename)

\* lines 746-762
AfterSeparate(u, st, separate) ==
    IF ~SeparateCalled(st) \/ ~separate.returned THEN st
    ELSE LET updated == [st.fields EXCEPT !.doc_type = separate.doc_type,
                                          !.issuer = separate.issuer,
                                          !.date_iso = separate.date_iso]
         IN  [st EXCEPT !.fields =
                 IF is_buy_contract_check(u) THEN [updated EXCEPT !.doc_type = "BuyContract"]
                 ELSE IF is_call_and_distribution(u)
                 THEN [updated EXCEPT !.doc_type = "CallAndDistributionStatement"]
                 ELSE IF is_distribution_statement(u)
                 THEN [updated EXCEPT !.doc_type = "DistributionStatement"]
                 ELSE updated]

\* lines 767-770: the values found with the doc type hint
RuleBasedWith(lines, text_content, rule_doc_type, hint) ==
    [doc_type |-> rule_doc_type,
     issuer |-> detect_issuer(text_content, hint),
     rule_based_date |-> extract_date(lines, hint),
     account_last4 |-> extract_account_last4(text_content)]

\* the doc type the rule-based functions are given: rule_doc_type or fields["doc_type"]
RuleBasedHint(lines, text_content, rule_doc_type, llm_doc_type) ==
    RuleBasedWith(lines, text_content, rule_doc_type,
                  IF rule_doc_type # None THEN rule_doc_type ELSE llm_doc_type)

\* lines 766-770: the rule-based values; llm_doc_type is fields["doc_type"] so far
RuleBased(lines, text_content, llm_doc_type) ==
    RuleBasedHint(lines, text_content, classify_doc_type(text_content)[1], llm_doc_type)

\* lines 774-791
ForceDocType(u, fields, rule_doc_type) ==
    IF is_buy_contract_check(u)
    THEN IF rule_doc_type = "BuyContract" \/ is_buy_contract_check(u)
         THEN [fields EXCEPT !.doc_type = "BuyContract"] ELSE fields
    ELSE IF is_call_and_distribution(u)
    THEN IF rule_doc_type = "CallAndDistributionStatement"
         THEN [fields EXCEPT !.doc_type = "CallAndDistributionStatement"] ELSE fields
    ELSE IF is_distribution_statement(u)
    THEN IF rule_doc_type = "DistributionStatement"
         THEN [fields EXCEPT !.doc_type = "DistributionStatement"] ELSE fields
    ELSE fields

\* lines 801-843
FillDocType(u, st, rule_doc_type) ==
    LET Unless(terms) == IF NameHas(st.suggested_filename, terms) THEN None
                         ELSE st.suggested_filename
        Set(forced, terms) == [fields |-> [st.fields EXCEPT !.doc_type = forced],
                               suggested_filename |-> Unless(terms)]
    IN  IF Falsy(st.fields.doc_type) THEN [st EXCEPT !.fields.doc_type = rule_doc_type]
        ELSE IF is_buy_contract_check(u)
        THEN Set("BuyContract", {"distribution-statement", "distributionstatement"})
        ELSE IF st.fields.doc_type = "DistributionStatement" /\ is_buy_contract_check(u)
        THEN Set("BuyContract", {"distribution-statement", "distributionstatement"})
        ELSE IF /\ st.fields.doc_type = "BuyContract"
                /\ (rule_doc_type = "CallAndDistributionStatement" \/ is_call_and_distribution(u))
        THEN Set("CallAndDistributionStatement", {"buy-contract"})
        ELSE IF /\ st.fields.doc_type = "BuyContract"
                /\ (rule_doc_type = "DistributionStatement" \/ is_distribution_statement(u))
        THEN IF ~is_buy_contract_check(u) THEN Set("DistributionStatement", {"buy-contract"})
             ELSE st
        ELSE IF is_call_and_distribution(u)
        THEN Set("CallAndDistributionStatement", {"buy-contract", "sell-contract"})
        ELSE IF is_distribution_statement(u)
        THEN Set("DistributionStatement", {"buy-contract", "sell-contract"})
        ELSE st

\* lines 852-860 without the branch of line 855
ReconcileDate_KeepExternal(fields, rule_based_date) ==
    IF Falsy(rule_based_date) THEN fields
    ELSE IF Falsy(fields.date_iso) THEN [fields EXCEPT !.date_iso = rule_based_date]
    ELSE fields

\* lines 852-860
ReconcileDate(fields, rule_based_date) ==
    IF Falsy(rule_based_date) THEN fields
    ELSE IF Falsy(fields.date_iso) THEN [fields EXCEPT !.date_iso = rule_based_date]
    ELSE IF fields.doc_type \in {"DividendStatement", "DistributionStatement",
                                 "CallAndDistributionStatement", "NetAssetSummaryStatement"}
    THEN [fields EXCEPT !.date_iso = rule_based_date]
    ELSE fields

\* the parts of a filename: name.replace(".pdf", "").split("_")
NameParts(name) == Split(Replace(name, ".pdf", ""), "_")

\* part and part[0].islower()
StartsLower(part) == part # "" /\ CharAt(part, 1) \in CharsOf(LowerAlphabet)

\* lines 876-889: needs_conversion
NeedsConversion(name) ==
    IF Contains(Replace(name, ".pdf", ""), " ") THEN TRUE
    ELSE IF Contains(Replace(name, ".pdf", ""), "_")
    THEN \E i \in 2..Len(NameParts(name)) :
            Contains(NameParts(name)[i], "-") \/ StartsLower(NameParts(name)[i])
    ELSE FALSE

\* lines 907-916: a dash in the issuer part or in the doc type part
needs_regeneration(parts) ==
    /\ Len(parts) >= 2
    /\ Contains(parts[2], "-") \/ (Len(parts) >= 3 /\ Contains(parts[3], "-"))

\* lines 901-921
Normalized(name, fields) ==
    IF needs_regeneration(NameParts(Replace(name, " ", "_")))
    THEN build_filename(fields) ELSE Replace(name, " ", "_")

\* lines 925-935
WithoutDashes(name, fields) ==
    IF /\ Contains(Replace(name, ".pdf", ""), "_")
       /\ \E i \in 2..Len(NameParts(name)) : Contains(NameParts(name)[i], "-")
    THEN build_filename(fields) ELSE name

\* the conditions of lines 938-964 under which the filename is regenerated
WrongDocTypeInName(name, doc_type) ==
    IF doc_type = "BuyContract"
    THEN \/ Contains(name, "DistributionStatement")
         \/ NameHas(name, {"distribution-statement", "distributionstatement"})
         \/ ~Contains(name, "BuyContract")
    ELSE IF doc_type = "CallAndDistributionStatement"
    THEN \/ Contains(name, "BuyContract") \/ Contains(name, "SellContract")
         \/ NameHas(name, {"buy-contract", "sell-contract"})
         \/ ~Contains(name, "DistributionAndCapitalCallStatement")
    ELSE IF doc_type = "DistributionStatement"
    THEN \/ Contains(name, "BuyContract") \/ Contains(name, "SellContract")
         \/ NameHas(name, {"buy-contract", "sell-contract"})
         \/ ~Contains(name, "DistributionStatement")
    ELSE FALSE

\* lines 938-964
FinalSafetyCheck(name, fields) ==
    IF WrongDocTypeInName(name, fields.doc_type) THEN build_filename(fields) ELSE name

\* lines 896-964: the fallback and the checks of a filename that is present
Checked(converted, fields) ==
    FinalSafetyCheck(
        WithoutDashes(
            Normalized(IF Falsy(converted) THEN build_filename(fields) ELSE converted, fields),
            fields),
        fields)

\* lines 874-893: a filename in another format is regenerated
Converted(suggested, fields) ==
    Checked(IF ~Falsy(suggested) /\ NeedsConversion(suggested)
            THEN build_filename(fields) ELSE suggested,
            fields)

\* lines 865-964: the filename; llm_filename is what suggest_filename_with_llm answers
Filename(st, fields, llm_filename) ==
    Converted(IF Falsy(st.suggested_filename) /\ ~Falsy(llm_filename)
              THEN llm_filename ELSE st.suggested_filename,
              fields)

\* lines 676-964: the fields and the filename computed for a text that is not
\* served from the cache
Response(st, fields, llm_filename) ==
    [fields |-> fields, suggested_filename |-> Filename(st, fields, llm_filename)]

\* lines 845-999 with the rule-based issuer preferred to the one in fields
Filled_RuleFirst(st, rule, llm_filename) ==
    Response(st,
             ReconcileDate([st.fields EXCEPT
                               !.issuer = IF Falsy(rule.issuer) THEN @ ELSE rule.issuer,
                               !.account_last4 = IF Falsy(@) THEN rule.account_last4 ELSE @],
                           rule.rule_based_date),
             llm_filename)

\* lines 845-999: the issuer, the account and the date are filled in
Filled(st, rule, llm_filename) ==
    Response(st,
             ReconcileDate([st.fields EXCEPT
                               !.issuer = IF Falsy(@) THEN rule.issuer ELSE @,
                               !.account_last4 = IF Falsy(@) THEN rule.account_last4 ELSE @],
                           rule.rule_based_date),
             llm_filename)

\* lines 774-843: the doc type is forced, the ASX code added, the doc type
\* filled in or corrected
Reconciled(text_content, u, st, rule, llm_filename) ==
    Filled(FillDocType(u,
                       [st EXCEPT !.fields =
                           [ForceDocType(u, st.fields, rule.doc_type) EXCEPT
                               !.asx_code = IF Falsy(@) THEN AsxCode(text_content) ELSE @]],
                       rule.doc_type),
           rule, llm_filename)

\* lines 766-999, st being what the external classifier left
AfterClassifier(lines, text_content, u, st, llm_filename) ==
    Reconciled(text_content, u, st, RuleBased(lines, text_content, st.fields.doc_type),
               llm_filename)

\* lines 687-999
Extracted(lines, text_content, u, ext) ==
    AfterClassifier(lines, text_content, u,
                    AfterSeparate(u, AfterCombined(u, ext.combined), ext.separate),
                    ext.filename)

Reclassify(lines, ext) == Extracted(lines, TextStr(lines), Upper(TextStr(lines)), ext)

(***************************************************************************)
(* The cache (lines 633-673 and 966-982).  _file_cache is a dict: cache is *)
(* the sequence of its entries in insertion order.                         *)
(***************************************************************************)
\* the source keeps 100 entries (line 979); the model keeps CacheLimit
CacheLimit == 2

\* the source's key is the first 16 hex digits of the text's SHA-256, a digest
\* that distinct texts can share; the model's digest is the text's length
\* modulo HashSpace
HashSpace == 5

file_hash(text_content) == Len(text_content) % HashSpace

\* the position of the key in the cache, 0 if absent
Position(c, key) ==
    IF \E p \in 1..Len(c) : c[p].key = key
    THEN CHOOSE p \in 1..Len(c) : c[p].key = key
    ELSE 0

\* del _file_cache[key]
Delete(c, p) == SubSeq(c, 1, p - 1) \o SubSeq(c, p + 1, Len(c))

\* _file_cache[key] = entry: a new key goes last, a present key keeps its place
Assign(c, entry) ==
    IF Position(c, entry.key) = 0 THEN Append(c, entry)
    ELSE [c EXCEPT ![Position(c, entry.key)] = entry]

\* lines 967-976: the entry a response is stored as
EntryOf(key, resp) ==
    [key |-> key, fields |-> resp.fields, suggested_filename |-> resp.suggested_filename]

is_buy_contract_check_cache(u) ==
    /\ Contains(u, "CONFIRMATION") \/ Contains(u, "BUY CONFIRMATION") \/ Contains(u, "CONTRACT NOTE")
    /\ \/ Contains(u, "BUY") \/ Contains(u, "WE HAVE BOUGHT")
       \/ Contains(u, "HAS BOUGHT") \/ Contains(u, "TRANSACTION TYPE: BUY")

is_call_and_distribution_check(u) ==
    Contains(u, "CALL AND DISTRIBUTION STATEMENT") \/ Contains(u, "CALL & DISTRIBUTION STATEMENT")

is_distribution_statement_check(u) ==
    /\ \/ Contains(u, "DISTRIBUTION STATEMENT") \/ Contains(u, "DISTRIBUTION ADVICE")
       \/ Contains(u, "DISTRIBUTION PAYMENT")
    /\ ~is_call_and_distribution_check(u)
    /\ ~is_buy_contract_check_cache(u)

Invalidated_BuyOnly(u, cached_result) ==
    /\ is_buy_contract_check_cache(u)
    /\ \/ cached_result.fields.doc_type = "DistributionStatement"
       \/ Contains(Lower(cached_result.suggested_filename), "distribution-statement")
       \/ Contains(Lower(cached_result.suggested_filename), "distributionstatement")

\* lines 652-663: the three branches that delete the cached entry
Invalidated(u, cached_result) ==
    \/ /\ is_buy_contract_check_cache(u)
       /\ \/ cached_result.fields.doc_type = "DistributionStatement"
          \/ Contains(Lower(cached_result.suggested_filename), "distribution-statement")
          \/ Contains(Lower(cached_result.suggested_filename), "distributionstatement")
    \/ /\ is_call_and_distribution_check(u) \/ is_distribution_statement_check(u)
       /\ cached_result.fields.doc_type = "BuyContract"
    \/ /\ is_call_and_distribution_check(u) \/ is_distribution_statement_check(u)
       /\ Contains(Lower(cached_result.suggested_filename), "buy-contract")

EvictOldest_Newest(c) == IF Len(c) > CacheLimit THEN SubSeq(c, 1, Len(c) - 1) ELSE c

\* lines 979-982: next(iter(_file_cache)) is the first key inserted
EvictOldest(c) == IF Len(c) > CacheLimit THEN Tail(c) ELSE c

(***************************************************************************)
(* Requests.  A request uploads one of PipelineTexts; the external language *)
(* model answers it as one of Externals.                                   *)
(***************************************************************************)
PipelineTexts ==
    << \* a buy confirmation
       << Line("BUY CONFIRMATION"), Line("Security Description: XYZ ETF"),
          Dated("Confirmation Date", Txt(13, "Nov", 2025)),
          Dated("Settlement Date", Txt(17, "Nov", 2025)) >>,
       \* a distribution statement, of the length of the buy confirmation
       << Line("Distribution Statement"), Line("Vanguard Australian Shares Index ETF"),
          Line("Holder ID: X001234567"),
          Dated("Payment Date", Num("DMY", 11, "/", 7, "/", 2025)) >>,
       \* a call and distribution statement
       << Line("Call and Distribution Statement"), Line("Munro Partners Pty. Ltd."),
          Dated("Statement Date", Num("DMY", 30, "/", 6, "/", 2025)) >>,
       \* a buy confirmation that quotes a call and distribution statement
       << Line("Buy Confirmation."), Line("Call and Distribution Statement") >>,
       \* a distribution advice with a net asset value
       << Line("Distribution Advice"), Line("NAV Statement"),
          Dated("Date", Num("DMY", 1, "/", 8, "/", 2025)) >>,
       \* no evidence of any type
       << Line("Page 1 of 12") >> >>

Answer(dt, issuer, date, name) ==
    [returned |-> TRUE, doc_type |-> dt, issuer |-> issuer, date_iso |-> date,
     suggested_filename |-> name]

\* extract_and_suggest_filename_with_llm (combined), extract_with_llm (separate)
\* and suggest_filename_with_llm (filename): what each answers if it is called
Externals ==
    << NoExternal,
       [combined |-> Answer("DistributionStatement", "Vanguard", "2025-07-11",
                            "2025-07-11_Vanguard_DistributionStatement.pdf"),
        separate |-> NoResult, filename |-> None],
       [combined |-> Answer("BuyContract", "XYZ ETF", "2025-11-17",
                            "2025-11-17_xyz-etf_buy-contract.pdf"),
        separate |-> NoResult, filename |-> None],
       [combined |-> Answer("SellContract", None, None, None),
        separate |-> Answer("CallAndDistributionStatement", "Munro Partners Pty Ltd", None, None),
        filename |-> "2025-06-30 Munro Statement.pdf"],
       [combined |-> NoResult,
        separate |-> Answer("BuyContract", "Acme Holdings", "2025-01-02", None),
        filename |-> None],
       [combined |-> NoResult, separate |-> NoResult,
        filename |-> "2025-01-02_Acme_Invoice.pdf"],
       [combined |-> Answer("CallAndDistributionStatement", "Vanguard", "2025-07-11",
                            "2025-07-11_Vanguard_CallAndDistributionStatement.pdf"),
        separate |-> NoResult, filename |-> None] >>

TextIds == 1..Len(PipelineTexts)

ExternalIds == 1..Len(Externals)

\* Reclassify of every text under every answer
Reclassified == [i \in TextIds, e \in ExternalIds |-> Reclassify(PipelineTexts[i], Externals[e])]

\* the key of every text
Keys == [i \in TextIds |-> file_hash(TextStr(PipelineTexts[i]))]

\* every entry a request can store
Entries == {EntryOf(Keys[i], Reclassified[i, e]) : i \in TextIds, e \in ExternalIds}

\* the fields after the calls of the external classifier (lines 710-762)
ExternalFields ==
    [i \in TextIds, e \in ExternalIds |->
        AfterSeparate(Upper(TextStr(PipelineTexts[i])),
                      AfterCombined(Upper(TextStr(PipelineTexts[i])), Externals[e].combined),
                      Externals[e].separate).fields]

\* the rule-based values of every text under every answer (lines 766-770)
RuleValues ==
    [i \in TextIds, e \in ExternalIds |->
        RuleBased(PipelineTexts[i], TextStr(PipelineTexts[i]), ExternalFields[i, e].doc_type)]

\* Invalidated of every text against every entry
Stale == [i \in TextIds, entry \in Entries |-> Invalidated(Upper(TextStr(PipelineTexts[i])), entry)]

Init ==
    /\ text = <<>>
    /\ pc = "ready"
    /\ ClassifyIdle
    /\ DateIdle
    /\ RequestIdle
    /\ FilenameIdle
    /\ IssuerIdle
    /\ LearningIdle

\* lines 664-673 returning an entry whose filename is already gone
Hit_Partial(cached_result) ==
    /\ response' = [fields |-> cached_result.fields, suggested_filename |-> None]
    /\ llm' = NoExternal
    /\ evicted' = {}
    /\ UNCHANGED cache

\* lines 664-673 on a cache ordered by recency of use: the entry hit becomes the newest
Hit_Refresh(cached_result) ==
    /\ response' = [fields |-> cached_result.fields,
                    suggested_filename |-> cached_result.suggested_filename]
    /\ llm' = NoExternal
    /\ evicted' = {}
    /\ cache' = Append(Delete(cache, Position(cache, cached_result.key)), cached_result)

\* lines 664-673: the cached result is returned
Hit(cached_result) ==
    /\ response' = [fields |-> cached_result.fields,
                    suggested_filename |-> cached_result.suggested_filename]
    /\ llm' = NoExternal
    /\ evicted' = {}
    /\ UNCHANGED cache

\* lines 967-999: the result is stored, the oldest entry dropped at the bound,
\* and the result returned
Store(result, stored) ==
    /\ response' = result
    /\ cache' = EvictOldest(stored)
    /\ evicted' = {stored[p].key : p \in 1..Len(stored)} \ {cache'[p].key : p \in 1..Len(cache')}

\* lines 636-673: p is the position of the key in the cache, 0 if absent;
\* served is "hit", "invalidated" or "miss", and kept the cache after the lookup
Lookup(i, e, p, served, kept) ==
    /\ path' = served
    /\ IF served = "hit"
       THEN Hit(cache[p])
       ELSE llm' = Externals[e]
            /\ Store(Reclassified[i, e], Assign(kept, EntryOf(Keys[i], Reclassified[i, e])))

\* lines 642-663: the entry at position p is deleted if it is invalidated
Validate(i, e, p, stale) ==
    Lookup(i, e, p,
           IF p = 0 THEN "miss" ELSE IF stale THEN "invalidated" ELSE "hit",
           IF p # 0 /\ stale THEN Delete(cache, p) ELSE cache)

\* lines 636-637
Find(i, e, p) == Validate(i, e, p, p # 0 /\ Stale[i, cache[p]])

\* lines 545-999: the handler, run for text i and the answers e.  It is a
\* coroutine without an await, so the event loop runs it from its first line
\* to its return before it runs anything else.
Handle(i, e) ==
    /\ text' = PipelineTexts[i]
    /\ Find(i, e, Position(cache, Keys[i]))
    /\ UNCHANGED <<learningVars, pc, classifyVars, dateVars, filenameVars, issuerVars>>

\* POST /v1/ocr-extract with text i, answered by the external services as e
Request(i, e) == Handle(i, e) /\ UNCHANGED pending

Next == \E i \in TextIds, e \in ExternalIds : Request(i, e)

Spec == Init /\ [][Next]_vars

(***************************************************************************)
(* Concurrent requests.  Up to MaxPending requests are in flight: each has *)
(* arrived and waits for the event loop, which runs the handlers of the    *)
(* waiting requests one at a time, in any order.  The texts are the two of *)
(* equal digest and the one whose entry is invalidated by its own text.    *)
(***************************************************************************)
MaxPending == 2

ConcurrentTexts == {1, 2, 4}

ConcurrentExternals == {1, 3}

\* a request arrives while others are waiting
Arrive(i, e) ==
    /\ Cardinality(pending) < MaxPending
    /\ <<i, e>> \notin pending
    /\ pending' = pending \cup {<<i, e>>}
    /\ UNCHANGED <<learningVars, text, pc, classifyVars, dateVars, cache, llm, response, path, evicted,
                   filenameVars, issuerVars>>

\* the event loop runs the handler of one of the waiting requests
Run(i, e) ==
    /\ <<i, e>> \in pending
    /\ pending' = pending \ {<<i, e>>}
    /\ Handle(i, e)

NextConcurrent ==
    \E i \in ConcurrentTexts, e \in ConcurrentExternals : Arrive(i, e) \/ Run(i, e)

SpecConcurrent == Init /\ [][NextConcurrent]_vars

(***************************************************************************)
(* build_filename inputs: every combination of a date, an issuer and a doc *)
(* type, each present, empty or missing.  build_filename is called on the  *)
(* fields, then either once more on the same fields or on the fields read  *)
(* back from the filename it produced.                                     *)
(***************************************************************************)
FilenameDates == {None, "", "2025-11-13"}

FilenameIssuers ==
    {None, "", "Vanguard", "XYZ ETF", "Munro Partners Pty. Ltd.", "Pty Ltd", "O'Neil & Co.",
     "Link Market Services"}

FilenameDocTypes ==
    {None, "", "BuyContract", "CallAndDistributionStatement", "DistributionStatement",
     "Invoice", "Contract", "buy-contract"}

\* the parts of a filename as fields (the parts of line 907: date, issuer, doc type)
ParseBack(name) ==
    [EmptyFields EXCEPT !.date_iso = NameParts(name)[1],
                        !.issuer = NameParts(name)[2],
                        !.doc_type = NameParts(name)[3]]

InitFilename ==
    /\ text = <<>>
    /\ pc = "ready"
    /\ ClassifyIdle
    /\ DateIdle
    /\ RequestIdle
    /\ IssuerIdle
    /\ LearningIdle
    /\ arg_fields \in {[EmptyFields EXCEPT !.date_iso = d, !.issuer = i, !.doc_type = t] :
                          d \in FilenameDates, i \in FilenameIssuers, t \in FilenameDocTypes}
    /\ built_filename = None
    /\ rebuilt_filename = None

BuildFilename ==
    /\ pc = "ready"
    /\ built_filename' = build_filename(arg_fields)
    /\ pc' = "done"
    /\ UNCHANGED <<learningVars, text, classifyVars, dateVars, requestVars, arg_fields, rebuilt_filename,
                   issuerVars>>

\* a second call with the same fields
BuildAgain ==
    /\ pc = "done"
    /\ rebuilt_filename' = build_filename(arg_fields)
    /\ pc' = "again"
    /\ UNCHANGED <<learningVars, text, classifyVars, dateVars, requestVars, arg_fields, built_filename,
                   issuerVars>>

\* a call with the parts of the filename that was built
BuildFromParts ==
    /\ pc = "done"
    /\ rebuilt_filename' = build_filename(ParseBack(built_filename))
    /\ pc' = "parsed"
    /\ UNCHANGED <<learningVars, text, classifyVars, dateVars, requestVars, arg_fields, built_filename,
                   issuerVars>>

NextFilename == BuildFilename \/ BuildAgain \/ BuildFromParts

SpecFilename == InitFilename /\ [][NextFilename]_vars

(***************************************************************************)
(* detect_issuer inputs: every text of at most MaxIssuerLines lines of     *)
(* IssuerVocab, in any order, for each doc type of IssuerDocTypes.         *)
(***************************************************************************)
MaxIssuerLines == 2

IssuerVocab ==
    {Line("Computershare Investor Services"), Line("Security Description: XYZ ETF"),
     Line("Vanguard Australian Shares Index ETF"), Line("CommSec"),
     Line("Link Market Services Limited"), Line("Bell Potter Securities"),
     Line("Investment: CMC Markets"), Line("Page 1 of 12")}

IssuerDocTypes == {"BuyContract", "DistributionStatement", None}

IssuerTexts == UNION {[1..n -> IssuerVocab] : n \in 0..MaxIssuerLines}

InitIssuer ==
    /\ text \in IssuerTexts
    /\ pc = "ready"
    /\ ClassifyIdle
    /\ arg_date_str = NoDate /\ parsed = None /\ date_iso = None
    /\ arg_doc_type \in IssuerDocTypes
    /\ RequestIdle
    /\ FilenameIdle
    /\ IssuerIdle
    /\ LearningIdle

DetectIssuer ==
    /\ pc = "ready"
    /\ detected_issuer' = detect_issuer(TextStr(text), arg_doc_type)
    /\ pc' = "done"
    /\ UNCHANGED <<learningVars, text, classifyVars, dateVars, requestVars, filenameVars>>

NextIssuer == DetectIssuer

SpecIssuer == InitIssuer /\ [][NextIssuer]_vars

(***************************************************************************)
(* LearningStore (learning_store.py): the stored user edits, in the order  *)
(* of the file's "edits" list, and the search for edits similar to a       *)
(* document.                                                               *)
(***************************************************************************)

\* lines 71 and 129: the characters of a text sample that are stored and compared
SampleLength == 500

\* lines 77-78: the edits the file keeps
StoredLimit == 1000

\* Python: s[:n]
Take(s, n) == SubSeq(s, 1, IF Len(s) < n THEN Len(s) ELSE n)

\* Python: (x or "")
OrEmpty(x) == IF Falsy(x) THEN "" ELSE x

\* Python: set(t.split()), t with single spaces between its words
Words(t) == {w \in {Split(t, " ")[i] : i \in 1..Len(Split(t, " "))} : w # ""}

\* line 137
stop_words == {"the", "a", "an", "and", "or", "but", "in", "on", "at", "to", "for", "of", "with", "by"}

\* lines 60-72: fields.get gives None for a key the fields lack; the timestamp of line 61
\* takes no part in the search and is left out
edit_entry(original, edited, fields, sample) ==
    [original_filename |-> original,
     edited_filename |-> edited,
     fields |-> [doc_type |-> fields.doc_type, issuer |-> fields.issuer,
                 date_iso |-> fields.date_iso, asx_code |-> fields.asx_code,
                 account_last4 |-> fields.account_last4],
     text_sample |-> IF Falsy(sample) THEN "" ELSE Take(sample, SampleLength)]

\* lines 77-78: store["edits"][-1000:]
KeepLast(stored) ==
    IF Len(stored) > StoredLimit THEN SubSeq(stored, Len(stored) - StoredLimit + 1, Len(stored))
    ELSE stored

\* lines 58-80
add_edit(stored, original, edited, fields, sample) ==
    KeepLast(Append(stored, edit_entry(original, edited, fields, sample)))

\* line 116: edit_fields.get("doc_type", "") is None when the stored doc_type is null (the
\* key is there, so the default is not used), and None.lower() raises AttributeError
DocTypeRaises(entry) == entry.fields.doc_type = None

\* lines 108 and 116-117
DocTypePoints(entry, wanted) ==
    IF Lower(entry.fields.doc_type) = Lower(OrEmpty(wanted.fields.doc_type)) THEN 10 ELSE 0

\* lines 121-125, for the lower-cased issuers
IssuerMatch(edit_issuer, current_issuer) ==
    IF edit_issuer # "" /\ current_issuer # ""
    THEN IF edit_issuer = current_issuer THEN 5
         ELSE IF Contains(current_issuer, edit_issuer) \/ Contains(edit_issuer, current_issuer) THEN 2
         ELSE 0
    ELSE 0

\* lines 109 and 120-125
IssuerPoints(entry, wanted) ==
    IssuerMatch(Lower(OrEmpty(entry.fields.issuer)), Lower(OrEmpty(wanted.fields.issuer)))

\* lines 132-138, for the lower-cased samples
CommonWords(edit_text, current_text) ==
    IF edit_text # "" /\ current_text # ""
    THEN (Words(edit_text) \cap Words(current_text)) \ stop_words
    ELSE {}

\* lines 128-140
TextPoints(entry, wanted) ==
    IF Cardinality(CommonWords(Lower(OrEmpty(entry.text_sample)),
                               IF Falsy(wanted.text_sample) THEN ""
                               ELSE Lower(Take(wanted.text_sample, SampleLength)))) < 5
    THEN Cardinality(CommonWords(Lower(OrEmpty(entry.text_sample)),
                                 IF Falsy(wanted.text_sample) THEN ""
                                 ELSE Lower(Take(wanted.text_sample, SampleLength))))
    ELSE 5

\* lines 112-140: the score of one stored edit
SimilarityScore(entry, wanted) ==
    DocTypePoints(entry, wanted) + IssuerPoints(entry, wanted) + TextPoints(entry, wanted)

RECURSIVE ScoredEdits(_, _)
\* lines 111-143: the edits of a score above zero with their scores, in stored order
ScoredEdits(stored, wanted) ==
    IF stored = <<>> THEN <<>>
    ELSE (IF SimilarityScore(Head(stored), wanted) > 0
          THEN <<[score |-> SimilarityScore(Head(stored), wanted), edit |-> Head(stored)]>>
          ELSE <<>>)
         \o ScoredEdits(Tail(stored), wanted)

RECURSIVE InsertByScore(_, _)
\* x put into a list sorted by falling score, behind the entries of its own score
InsertByScore(sorted, x) ==
    IF sorted = <<>> THEN <<x>>
    ELSE IF Head(sorted).score >= x.score THEN <<Head(sorted)>> \o InsertByScore(Tail(sorted), x)
    ELSE <<x>> \o sorted

RECURSIVE SortByScore(_, _)
\* line 146: list.sort(key=score, reverse=True), which keeps the order of equal scores
SortByScore(sorted, rest) ==
    IF rest = <<>> THEN sorted
    ELSE SortByScore(InsertByScore(sorted, Head(rest)), Tail(rest))

\* what find_similar_edits gives its caller: the examples, or the exception it raised
Returned(examples) == [called |-> TRUE, raised |-> FALSE, examples |-> examples]

Raised == [called |-> TRUE, raised |-> TRUE, examples |-> <<>>]

\* lines 100-149; the examples are returned without their scores, which the model keeps
find_similar_edits(stored, wanted) ==
    IF stored = <<>> THEN Returned(<<>>)
    ELSE IF \E k \in 1..Len(stored) : DocTypeRaises(stored[k]) THEN Raised
    ELSE Returned(Take(SortByScore(<<>>, ScoredEdits(stored, wanted)), wanted.max_examples))

(***************************************************************************)
(* The learning store: at most MaxEdits calls of add_edit, each with one   *)
(* of EditInputs, and then a call of find_similar_edits with the fields,   *)
(* text sample and max_examples of one of SimilarInputs.  The search       *)
(* writes nothing, so what it gives depends on the stored edits alone.     *)
(***************************************************************************)
MaxEdits == 3

Edit(original, edited, dt, issuer, sample) ==
    [original |-> original, edited |-> edited,
     fields |-> [EmptyFields EXCEPT !.doc_type = dt, !.issuer = issuer], sample |-> sample]

EditInputs ==
    { Edit("2025-11-13_Vanguard_BuyContract.pdf", "2025-11-13_Vanguard_Buy.pdf",
           "BuyContract", "Vanguard", "Buy Confirmation for the Vanguard fund"),
      Edit("2025-07-11_Vanguard_DistributionStatement.pdf", "2025-07-11_VAS_Distribution.pdf",
           "DistributionStatement", "Vanguard Australia", ""),
      Edit("YYYY-MM-DD_Unknown_BuyContract.pdf", "2025-01-02_Acme_Buy.pdf",
           "BuyContract", None, "the of and"),
      Edit("2025-06-30_Acme_TaxStatement.pdf", "2025-06-30_Acme_Tax.pdf",
           "TaxStatement", "Acme", "Annual Tax Statement"),
      \* an edit of a document that was given no doc type
      Edit("YYYY-MM-DD_Unknown_Unknown.pdf", "2025-11-13_Scan.pdf",
           None, None, "Page 1 of 12") }

SimilarInputs ==
    { [fields |-> [EmptyFields EXCEPT !.doc_type = dt, !.issuer = issuer],
       text_sample |-> sample, max_examples |-> n] :
         dt \in {None, "BuyContract"}, issuer \in {None, "Vanguard"},
         sample \in {"", "Buy confirmation of the fund"}, n \in {1, 3} }

NoQuery == [fields |-> EmptyFields, text_sample |-> "", max_examples |-> 0]

NotCalled == [called |-> FALSE, raised |-> FALSE, examples |-> <<>>]

InitLearning ==
    /\ text = <<>>
    /\ pc = "ready"
    /\ ClassifyIdle
    /\ DateIdle
    /\ RequestIdle
    /\ FilenameIdle
    /\ IssuerIdle
    /\ LearningIdle

AddEdit ==
    /\ pc = "ready"
    /\ Len(edits) < MaxEdits
    /\ \E x \in EditInputs : edits' = add_edit(edits, x.original, x.edited, x.fields, x.sample)
    /\ UNCHANGED <<text, pc, classifyVars, dateVars, requestVars, filenameVars, issuerVars,
                   query, similar>>

FindSimilarEdits ==
    /\ pc = "ready"
    /\ \E q \in SimilarInputs :
          /\ query' = q
          /\ similar' = find_similar_edits(edits, q)
    /\ pc' = "done"
    /\ UNCHANGED <<text, classifyVars, dateVars, requestVars, filenameVars, issuerVars, edits>>

NextLearning == AddEdit \/ FindSimilarEdits

SpecLearning == InitLearning /\ [][NextLearning]_vars

(***************************************************************************)
(* Properties of classify_doc_type, checked under SpecClassify.            *)
(***************************************************************************)
upper_text == Upper(TextStr(text))

\* (CONFIRMATION or CONTRACT NOTE) together with a buy term, lines 206-209
BuyConfirmationTrigger(u) ==
    /\ (Contains(u, "CONFIRMATION") \/ Contains(u, "BUY CONFIRMATION") \/ Contains(u, "CONTRACT NOTE"))
    /\ AnyIn(buy_required, u)

\* C1: every text that contains "has bought", or both "CONFIRMATION" and
\* "BUY", and no CallAndDistributionStatement trigger is classified
\* BuyContract, whatever else it contains.
C1_BoughtOrConfirmationBuyIsBuyContract ==
    (pc = "done"
       /\ (Contains(upper_text, "HAS BOUGHT")
             \/ (Contains(upper_text, "CONFIRMATION") /\ Contains(upper_text, "BUY")))
       /\ ~is_call_and_dist(upper_text))
    => classified[1] = "BuyContract"

\* C2: every text that contains "has sold" and neither "has bought" nor a
\* buy-confirmation trigger is classified SellContract.
C2_HasSoldIsSellContract ==
    (pc = "done"
       /\ Contains(upper_text, "HAS SOLD")
       /\ ~Contains(upper_text, "HAS BOUGHT")
       /\ ~BuyConfirmationTrigger(upper_text))
    => classified[1] = "SellContract"

\* C7: a doc type whose rule has an exclude list is never returned for a text
\* that contains a term of that list, whichever path selected it.
C7_ExcludedTypeNeverReturned ==
    pc = "done" =>
        \A dt \in DocTypes :
            (DOC_TYPE_PATTERNS[dt].has_exclude /\ AnyIn(UpperPatterns[dt].exclude, upper_text))
            => classified[1] # dt

\* C8: a text with "Bank Statement", "CONTRACT NOTE" and "BUY" is never
\* classified BankStatement.
C8_BankStatementWithContractNoteBuy ==
    (pc = "done"
       /\ Contains(upper_text, "BANK STATEMENT")
       /\ Contains(upper_text, "CONTRACT NOTE")
       /\ Contains(upper_text, "BUY"))
    => classified[1] # "BankStatement"

\* a bank statement text with a contract note and a buy term has been classified
C8_Witness ==
    /\ pc = "done"
    /\ Contains(upper_text, "BANK STATEMENT")
    /\ Contains(upper_text, "BANK ACCOUNT")
    /\ Contains(upper_text, "CONTRACT NOTE")
    /\ Contains(upper_text, "BUY")
    /\ classified[1] = "BuyContract"

(***************************************************************************)
(* Properties of parse_date and extract_date, checked under SpecDate.      *)
(***************************************************************************)
\* C9: parse_date reads a token A/B/YYYY or A-B-YYYY day-first whenever A is
\* a valid day of month B, and month-first only when the day-first reading
\* is not a date; "Confirmation Date: 11/07/2025" of a BuyContract resolves
\* to 2025-07-11.
C9_DayFirstBeforeMonthFirst ==
    /\ (pc = "done" /\ arg_date_str.shape = "DMY" /\ arg_date_str.s1 = arg_date_str.s2)
       => IF ValidDate(arg_date_str.y, arg_date_str.b, arg_date_str.a)
          THEN parsed = ISO(arg_date_str.y, arg_date_str.b, arg_date_str.a)
          ELSE parsed \in {None, ISO(arg_date_str.y, arg_date_str.a, arg_date_str.b)}
    /\ (pc = "done" /\ arg_date_str = NoDate /\ arg_doc_type = "BuyContract"
          /\ text = <<Dated("Confirmation Date", Num("DMY", 11, "/", 7, "/", 2025))>>)
       => date_iso = "2025-07-11"

\* 11/07/2025, a date either way round, has been parsed as 11 July
C9_Witness ==
    /\ pc = "done"
    /\ arg_date_str = Num("DMY", 11, "/", 7, "/", 2025)
    /\ parsed = "2025-07-11"

\* the dates that follow the label somewhere in the text and parse
DatesAfter(lines, label) ==
    {parse_date(lines[i].tok) : i \in {j \in 1..Len(lines) : LabelMatches(lines[j], label)}} \ {None}

\* C10: for a BuyContract or SellContract extract_date returns the date of
\* the first label, in the order Confirmation Date, Transaction Date, Trade
\* Date, Settlement Date, As at Date, Date, that is followed by a date that
\* parses, and the result of the generic scan only when no label is.
C10_FirstLabelWithParseableDate ==
    (pc = "done" /\ arg_date_str = NoDate /\ arg_doc_type \in {"BuyContract", "SellContract"})
    => LET labels == DATE_PRIORITIES[arg_doc_type]
           yielding == {i \in 1..Len(labels) : DatesAfter(text, labels[i]) # {}}
       IN  IF yielding = {}
           THEN date_iso = extract_generic_date(text)
           ELSE LET first == CHOOSE i \in yielding : \A j \in yielding : i <= j
                IN  date_iso \in DatesAfter(text, labels[first])

(***************************************************************************)
(* Properties of ocr_extract and of its cache, checked under Spec.         *)
(***************************************************************************)
\* the category a text gives strong evidence for, in the order buy contract,
\* call and distribution statement, distribution statement
StrongEvidence(u) ==
    IF /\ Contains(u, "CONFIRMATION") \/ Contains(u, "CONTRACT NOTE")
       /\ Contains(u, "BUY") \/ Contains(u, "WE HAVE BOUGHT") \/ Contains(u, "HAS BOUGHT")
    THEN "BuyContract"
    ELSE IF \/ Contains(u, "CALL AND DISTRIBUTION STATEMENT")
            \/ Contains(u, "CALL & DISTRIBUTION STATEMENT")
    THEN "CallAndDistributionStatement"
    ELSE IF \/ Contains(u, "DISTRIBUTION STATEMENT") \/ Contains(u, "DISTRIBUTION ADVICE")
            \/ Contains(u, "DISTRIBUTION PAYMENT")
    THEN "DistributionStatement"
    ELSE None

EvidenceOf == [i \in TextIds |-> StrongEvidence(Upper(TextStr(PipelineTexts[i])))]

\* the index of a requested text and of the answers of a request
TextId(lines) == CHOOSE i \in TextIds : PipelineTexts[i] = lines

ExternalId(ext) == CHOOSE e \in ExternalIds : Externals[e] = ext

\* the language model classified the text: the combined call returned, or the
\* separate call did (it is made whenever the combined call gave no filename)
ClassifierReturned == llm.combined.returned \/ llm.separate.returned

\* C3: whenever the external classifier returned a result, the doc_type of the
\* response is the category the text gives strong evidence for (BuyContract,
\* else CallAndDistributionStatement, else DistributionStatement), whatever
\* doc_type the classifier gave.
C3_EvidenceOverridesClassifier ==
    (path \in {"miss", "invalidated"} /\ ClassifierReturned /\ EvidenceOf[TextId(text)] # None)
    => response.fields.doc_type = EvidenceOf[TextId(text)]

\* the classifier called a call and distribution statement a BuyContract and
\* the response says CallAndDistributionStatement
C3_Witness ==
    /\ path = "miss"
    /\ llm.combined.returned
    /\ llm.combined.doc_type = "BuyContract"
    /\ EvidenceOf[TextId(text)] = "CallAndDistributionStatement"
    /\ response.fields.doc_type = "CallAndDistributionStatement"

\* the cached doc_type contradicts the evidence of text i
Contradicts(i, cached_doc_type) ==
    \/ EvidenceOf[i] = "BuyContract" /\ cached_doc_type = "DistributionStatement"
    \/ /\ EvidenceOf[i] \in {"CallAndDistributionStatement", "DistributionStatement"}
       /\ cached_doc_type = "BuyContract"

\* C4: a lookup that finds an entry whose doc_type contradicts the evidence of
\* the text (buy evidence against a cached DistributionStatement, call and
\* distribution or distribution evidence against a cached BuyContract) deletes
\* the entry and handles the request as a miss: the response is the recomputed
\* result, which is stored as a new entry.
C4_ContradictedEntryIsPurged ==
    [][\A p \in 1..Len(cache) :
          (/\ cache[p].key = Keys[TextId(text')]
           /\ Contradicts(TextId(text'), cache[p].fields.doc_type))
          => /\ path' = "invalidated"
             /\ response' = Reclassified[TextId(text'), ExternalId(llm')]
             /\ cache' = Append(Delete(cache, p), EntryOf(cache[p].key, response'))]_vars

\* a text with buy evidence found a cached DistributionStatement under its key,
\* the entry is gone and the response is a BuyContract
C4_Witness ==
    /\ path = "invalidated"
    /\ EvidenceOf[TextId(text)] = "BuyContract"
    /\ response.fields.doc_type = "BuyContract"
    /\ \A p \in 1..Len(cache) :
          cache[p].key = Keys[TextId(text)] => cache[p].fields.doc_type = "BuyContract"

\* C5: when a request has stored an entry under the hash of its text, the next
\* request with the same text is a cache hit that returns the stored fields and
\* filename.
C5_GetAfterPutReturnsStored ==
    [][(path \in {"miss", "invalidated"} /\ text' = text)
          => (path' = "hit" /\ response' = response)]_vars

\* C6: the cache never holds more than CacheLimit entries, and a new entry
\* stored in a full cache removes the entry inserted first and is itself kept
\* as the last one.
C6_BoundedFifo ==
    [][/\ Len(cache') <= CacheLimit
       /\ (Len(cache) = CacheLimit /\ path' = "miss")
            => cache' = Append(Tail(cache), EntryOf(Keys[TextId(text')], response'))]_vars

\* a request has just dropped the oldest entry of a full cache
C6_Witness ==
    /\ evicted # {}
    /\ Len(cache) = CacheLimit
    /\ \A k \in evicted : Position(cache, k) = 0
    /\ cache[Len(cache)] = EntryOf(Keys[TextId(text)], response)

(***************************************************************************)
(* Properties of build_filename, checked under SpecFilename.               *)
(***************************************************************************)
EndsWithPdf(name) == Len(name) >= 4 /\ SubSeq(name, Len(name) - 3, Len(name)) = ".pdf"

\* C11: for every combination of present, empty or missing date, issuer and
\* doc type, build_filename returns a name <date>_<issuer>_<tag>.pdf whose date
\* part is the date or "YYYY-MM-DD" if it is missing, whose issuer part is
\* "Unknown" if the issuer is missing or empty and whose tag is "Unknown" if
\* the doc type is missing, and a second call with the same fields returns the
\* same name.
C11_FilenameTotalAndDeterministic ==
    /\ pc \in {"done", "again", "parsed"} =>
          /\ built_filename # None
          /\ EndsWithPdf(built_filename)
          /\ Len(NameParts(built_filename)) = 3
          /\ NameParts(built_filename)[1] =
                IF Falsy(arg_fields.date_iso) THEN "YYYY-MM-DD" ELSE arg_fields.date_iso
          /\ NameParts(built_filename)[2] # ""
          /\ NameParts(built_filename)[3] # ""
          /\ Falsy(arg_fields.issuer) => NameParts(built_filename)[2] = "Unknown"
          /\ Falsy(arg_fields.doc_type) => NameParts(built_filename)[3] = "Unknown"
    /\ pc = "again" => rebuilt_filename = built_filename

\* build_filename was called twice on fields without date, issuer and doc type
C11_Witness ==
    /\ pc = "again"
    /\ arg_fields.date_iso = None /\ arg_fields.issuer = "" /\ arg_fields.doc_type = None
    /\ built_filename = "YYYY-MM-DD_Unknown_Unknown.pdf"
    /\ rebuilt_filename = built_filename

\* C12: build_filename on the date, issuer and doc type parts of a filename it
\* produced gives that filename again.
C12_ParseBackIdempotent == pc = "parsed" => rebuilt_filename = built_filename

(***************************************************************************)
(* Properties of the whole request, checked under Spec.                    *)
(***************************************************************************)
\* C13: for the buy confirmation with a Confirmation Date of 13 Nov 2025, a
\* later Settlement Date and the Security Description XYZ ETF, every response
\* has doc_type BuyContract, date_iso 2025-11-13 and issuer XYZ ETF, and its
\* filename contains BuyContract and the date as 20251113.
C13_BuyConfirmationEndToEnd ==
    (path # "none" /\ text = PipelineTexts[1])
    => /\ response.fields.doc_type = "BuyContract"
       /\ response.fields.date_iso = "2025-11-13"
       /\ response.fields.issuer = "XYZ ETF"
       /\ Contains(response.suggested_filename, "BuyContract")
       /\ Contains(response.suggested_filename, "20251113")

(***************************************************************************)
(* Properties of detect_issuer, checked under SpecIssuer.                  *)
(***************************************************************************)
\* the brokers and registrars a document can name without being issued by them
BrokersAndRegistrars ==
    {"Computershare", "Link Market Services", "CommSec", "CMC Markets", "nabtrade", "Bell Potter"}

\* C14: for every text and every doc type, detect_issuer does not return the
\* name of a broker or registrar.
C14_NeverBrokerOrRegistrar == pc = "done" => detected_issuer \notin BrokersAndRegistrars

\* the doc types whose rule-based date replaces the date of the classifier
RuleDateTypes ==
    {"DividendStatement", "DistributionStatement", "CallAndDistributionStatement",
     "NetAssetSummaryStatement"}

\* the date the claim gives a response with these fields, the rule-based date
\* and the date the classifier left
ClaimedDate(final, rule_date, external_date) ==
    IF ~Falsy(rule_date) /\ final.doc_type \in RuleDateTypes THEN rule_date
    ELSE IF ~Falsy(external_date) THEN external_date
    ELSE rule_date

ClaimedValue(external_value, rule_value) ==
    IF ~Falsy(external_value) THEN external_value ELSE rule_value

\* C16: in every response that is not served from the cache, the issuer and
\* account_last4 are the values of the external classifier if it gave them (a
\* value that is null or empty counts as missing), and the values of
\* detect_issuer and extract_account_last4 only if it did not.
C16_IssuerAndAccountReconciliation ==
    path \in {"miss", "invalidated"}
    => /\ response.fields.issuer =
             ClaimedValue(ExternalFields[TextId(text), ExternalId(llm)].issuer,
                          RuleValues[TextId(text), ExternalId(llm)].issuer)
       /\ response.fields.account_last4 =
             ClaimedValue(ExternalFields[TextId(text), ExternalId(llm)].account_last4,
                          RuleValues[TextId(text), ExternalId(llm)].account_last4)

\* the classifier named an issuer, detect_issuer found another one and an
\* account number, and the response has the issuer of the classifier and the
\* account number of the rules
C16_Witness ==
    /\ path = "miss"
    /\ ExternalFields[TextId(text), ExternalId(llm)].issuer = "Acme Holdings"
    /\ RuleValues[TextId(text), ExternalId(llm)].issuer = "Vanguard"
    /\ RuleValues[TextId(text), ExternalId(llm)].account_last4 = "4567"
    /\ response.fields.issuer = "Acme Holdings"
    /\ response.fields.account_last4 = "4567"

\* the tag build_filename gives the doc types the handler forces
ForcedTag(doc_type) ==
    IF doc_type = "CallAndDistributionStatement" THEN "DistributionAndCapitalCallStatement"
    ELSE doc_type

\* the filename has a doc type part and it is the tag of the doc type
NamesDocType(name, doc_type) ==
    /\ ~Falsy(name)
    /\ Len(NameParts(name)) >= 3
    /\ NameParts(name)[3] = ForcedTag(doc_type)

ForcedDocTypes == {"BuyContract", "CallAndDistributionStatement", "DistributionStatement"}

\* C17: in every response and in every cache entry whose doc_type is
\* BuyContract, CallAndDistributionStatement or DistributionStatement, the doc
\* type part of the filename is the tag of that type (BuyContract,
\* DistributionAndCapitalCallStatement, DistributionStatement).
C17_FilenameAgreesWithDocType ==
    /\ (path # "none" /\ response.fields.doc_type \in ForcedDocTypes)
          => NamesDocType(response.suggested_filename, response.fields.doc_type)
    /\ \A p \in 1..Len(cache) :
          cache[p].fields.doc_type \in ForcedDocTypes
          => NamesDocType(cache[p].suggested_filename, cache[p].fields.doc_type)

\* the fields the rule-based functions give on their own
RuleFields(rule) ==
    [EmptyFields EXCEPT !.doc_type = rule.doc_type, !.issuer = rule.issuer,
                        !.date_iso = rule.rule_based_date, !.account_last4 = rule.account_last4]

\* C18: when no call of the external classifier returns a result, the request
\* is answered with the rule-based result: doc_type is what classify_doc_type
\* returned, issuer what detect_issuer returned, date_iso what extract_date
\* returned, and the filename is build_filename of these fields.
C18_RuleBasedWithoutClassifier ==
    (path \in {"miss", "invalidated"} /\ llm = NoExternal)
    => /\ response.fields.doc_type = RuleValues[TextId(text), 1].doc_type
       /\ response.fields.issuer = RuleValues[TextId(text), 1].issuer
       /\ response.fields.date_iso = RuleValues[TextId(text), 1].rule_based_date
       /\ response.suggested_filename = build_filename(RuleFields(RuleValues[TextId(text), 1]))

(***************************************************************************)
(* Properties of concurrent requests, checked under SpecConcurrent.        *)
(***************************************************************************)
\* the handler of a waiting request has run in this step
Handled == Cardinality(pending') < Cardinality(pending)

\* C19: in whatever order the handlers of concurrent requests run, every
\* request is answered with a filename, every hit returns, complete, an entry
\* that was in the cache under the hash of the text when the handler started
\* and that a request stored, leaving the cache as it was, and the cache holds
\* only complete entries that a request stored.
C19_HitsReturnStoredEntries ==
    [][Handled =>
          /\ path' \in {"hit", "miss", "invalidated"}
          /\ response'.suggested_filename # None
          /\ path' = "hit" =>
                /\ cache' = cache
                /\ \E p \in 1..Len(cache) :
                      /\ cache[p].key = Keys[TextId(text')]
                      /\ cache[p] \in Entries
                      /\ response' = [fields |-> cache[p].fields,
                                      suggested_filename |-> cache[p].suggested_filename]
          /\ \A p \in 1..Len(cache') : cache'[p] \in Entries]_vars

\* a hit was served from the entry of its hash while another request for a
\* text of the same hash was waiting
C19_Witness ==
    /\ path = "hit"
    /\ \E r \in pending : Keys[r[1]] = Keys[TextId(text)]
    /\ \E p \in 1..Len(cache) :
          /\ cache[p].key = Keys[TextId(text)]
          /\ response = [fields |-> cache[p].fields,
                         suggested_filename |-> cache[p].suggested_filename]

(***************************************************************************)
(* Further properties of extract_date, checked under SpecDate.             *)
(***************************************************************************)
\* four digits, a dash, two digits, a dash, two digits
WellFormedDate(s) ==
    /\ Len(s) = 10
    /\ CharAt(s, 5) = "-" /\ CharAt(s, 8) = "-"
    /\ \A p \in {1, 2, 3, 4, 6, 7, 9, 10} : CharAt(s, p) \in DigitChars

\* C20: for every text and doc type extract_date returns None or a string of
\* the form YYYY-MM-DD; a token that has the shape of a date and is none (day
\* 32, month 13) gives None or the next candidate.
C20_WellFormedDateOrNull ==
    (pc = "done" /\ arg_date_str = NoDate) => (date_iso = None \/ WellFormedDate(date_iso))

\* the year the claim gives a two-digit year
ClaimedCentury(yy) == IF yy < 50 THEN 2000 + yy ELSE 1900 + yy

\* C21: parse_date reads a token DD/MM/YY that is a date as the year 2000 + YY
\* when YY < 50 and as the year 1900 + YY when YY >= 50.
C21_TwoDigitYearPivot ==
    (/\ pc = "done"
     /\ arg_date_str.shape = "DMY2"
     /\ arg_date_str.s1 = "/"
     /\ ValidDate(ClaimedCentury(arg_date_str.y), arg_date_str.b, arg_date_str.a))
    => parsed = ISO(ClaimedCentury(arg_date_str.y), arg_date_str.b, arg_date_str.a)

\* no short-circuit check of lines 184-249 selects a category for the text
NoShortCircuit == ShortCircuit(upper_text)[1] = None

\* no doc type gets a score above zero in the loop of lines 251-290
NoGenericScore ==
    \A dt \in DocTypes :
        ExcludedBy(dt, upper_text) \/ RequireAnyUnmet(dt, upper_text) \/ GenericScore(dt, upper_text) = 0

\* C22: when no short-circuit trigger fires and no doc type rule scores above zero,
\* classify_doc_type returns (null, 0); and fields with doc_type null, no issuer and no
\* date get the placeholder filename YYYY-MM-DD_Unknown_Unknown.pdf from build_filename.
C22_NullResultAndPlaceholder ==
    /\ (pc \in {"done", "named"} /\ NoShortCircuit /\ NoGenericScore) => classified = <<None, 0>>
    /\ (/\ pc = "named"
        /\ arg_fields.doc_type = None
        /\ arg_fields.issuer = None
        /\ arg_fields.date_iso = None)
       => built_filename = "YYYY-MM-DD_Unknown_Unknown.pdf"

C22_Witness ==
    /\ pc = "named"
    /\ NoShortCircuit
    /\ NoGenericScore
    /\ Len(text) > 0
    /\ classified = <<None, 0>>
    /\ arg_fields.issuer = None
    /\ arg_fields.date_iso = None
    /\ built_filename = "YYYY-MM-DD_Unknown_Unknown.pdf"

\* the terms of a list
TermsOf(terms) == {terms[i] : i \in 1..Len(terms)}

\* the terms of a list that are in the text
TermsIn(terms, u) == {t \in TermsOf(terms) : Contains(u, t)}

\* the score the claim gives a doc type that passes its checks, before the further 10s
ClaimedBase(dt, u) ==
    IF TermsIn(UpperPatterns[dt].must, u) = TermsOf(UpperPatterns[dt].must)
    THEN 80 + 5 * Cardinality(TermsIn(UpperPatterns[dt].hints, u))
    ELSE IF TermsIn(UpperPatterns[dt].must, u) # {}
    THEN 50 + 5 * Cardinality(TermsIn(UpperPatterns[dt].hints, u))
    ELSE IF TermsIn(UpperPatterns[dt].hints, u) # {}
    THEN 30 + 5 * Cardinality(TermsIn(UpperPatterns[dt].hints, u))
    ELSE 0

ClaimedScore(dt, u) ==
    IF UpperPatterns[dt].has_require_any /\ ClaimedBase(dt, u) # 0
    THEN ClaimedBase(dt, u) + 10 * Cardinality(TermsIn(UpperPatterns[dt].require_any, u))
    ELSE ClaimedBase(dt, u)

\* the doc type passes its exclude and require_any checks
PassesChecks(dt, u) == ~ExcludedBy(dt, u) /\ ~RequireAnyUnmet(dt, u)

\* C23: in the generic loop a doc type that passes its exclude and require_any checks
\* scores 80 + 5h when all its must terms are in the text, 50 + 5h when some are, 30 + 5h
\* when none is but h > 0, and 0 otherwise, h being the number of its hints in the text;
\* with require_any and a non-zero score it gets 10 more for each require_any term present.
C23_GenericScoring ==
    pc = "done" =>
        \A i \in 1..Len(DocTypeOrder) :
            scored[i] # Skipped => scored[i] = ClaimedScore(DocTypeOrder[i], upper_text)

\* the position of a doc type in the rule table
OrderOf(dt) == CHOOSE i \in 1..Len(DocTypeOrder) : DocTypeOrder[i] = dt

C23_Witness ==
    /\ pc = "done"
    /\ scored[OrderOf("BuyContract")] = 45
    /\ scored[OrderOf("DividendStatement")] = 85
    /\ scored[OrderOf("SellContract")] = 0
    /\ scored[OrderOf("HoldingStatement")] = Skipped

\* the generic score of each doc type of the rule table that passes its checks, in the
\* order of the table (0 for one that does not pass)
GenericScores(u) ==
    [i \in 1..Len(DocTypeOrder) |->
        IF PassesChecks(DocTypeOrder[i], u) THEN GenericScore(DocTypeOrder[i], u) ELSE 0]

\* the highest of the scores
MaxOf(scores) == CHOOSE m \in {scores[i] : i \in DOMAIN scores} : \A k \in DOMAIN scores : scores[k] <= m

\* the positions that have the score m
Leaders(scores, m) == {i \in DOMAIN scores : scores[i] = m}

\* the first position that has the score m
FirstLeader(scores, m) == CHOOSE i \in Leaders(scores, m) : \A k \in Leaders(scores, m) : i <= k

\* the doc type the claim has returned for the scores, and its score
MaxScoreFirst(scores) == <<DocTypeOrder[FirstLeader(scores, MaxOf(scores))], MaxOf(scores)>>

\* C24: when no short-circuit category is selected, classify_doc_type returns the doc type
\* of the highest generic score among those that pass their exclude and require_any checks,
\* with that score, and of several doc types of that score the first of the rule table.
C24_MaxScoreEarliestWins ==
    (pc = "done" /\ NoShortCircuit /\ MaxOf(GenericScores(upper_text)) > 0)
    => classified = MaxScoreFirst(GenericScores(upper_text))

\* the text says "has bought" or "we have bought", or has a confirmation or contract-note
\* term together with "BUY"
BoughtOrConfirmedBuy(u) ==
    \/ Contains(u, "HAS BOUGHT")
    \/ Contains(u, "WE HAVE BOUGHT")
    \/ /\ \E term \in {"CONFIRMATION", "BUY CONFIRMATION", "CONTRACT NOTE"} : Contains(u, term)
       /\ Contains(u, "BUY")

\* C25: classify_doc_type never returns DistributionStatement for a text that contains
\* "has bought" or "we have bought", or a confirmation or contract-note term together with
\* "BUY", even when the text also has one of the distribution phrases.
C25_BoughtNeverDistribution ==
    (pc = "done" /\ BoughtOrConfirmedBuy(upper_text)) => classified[1] # "DistributionStatement"

C25_Witness ==
    /\ pc = "done"
    /\ Contains(upper_text, "HAS BOUGHT")
    /\ ~Contains(upper_text, "CONFIRMATION")
    /\ HasDistributionPhrase(upper_text)
    /\ classified[1] # "DistributionStatement"

\* the hints the short-circuit check of a category counts
ShortCircuitHints(category) ==
    IF category = "CallAndDistributionStatement" THEN call_distribution_hints
    ELSE IF category = "BuyContract" THEN buy_hints
    ELSE IF category = "DistributionStatement" THEN distribution_hints
    ELSE nav_hints

\* the short-circuit score the claim gives a category
ShortCircuitScore(category, u) ==
    (IF category = "DistributionStatement" THEN 90 ELSE 95) + 5 * CountIn(ShortCircuitHints(category), u)

\* C26: a short-circuit category selected before the generic loop is never replaced by the
\* loop: classify_doc_type returns it with its short-circuit score, 95 + 5 * hints, or
\* 90 + 5 * hints for DistributionStatement, whatever the generic rules would score.
C26_ShortCircuitKept ==
    (pc = "done" /\ ~NoShortCircuit)
    => /\ classified[1] = ShortCircuit(upper_text)[1]
       /\ classified[1] \in {"CallAndDistributionStatement", "BuyContract", "DistributionStatement",
                             "NetAssetSummaryStatement"}
       /\ classified[2] = ShortCircuitScore(classified[1], upper_text)

C26_Witness ==
    /\ pc = "done"
    /\ ~NoShortCircuit
    /\ classified[1] = "DistributionStatement"
    /\ classified[2] = ShortCircuitScore(classified[1], upper_text)
    /\ MaxOf(GenericScores(upper_text)) > classified[2]

\* the check of lines 184-249 for the category is the one whose result classify_doc_type keeps
Selects(category) == ~NoShortCircuit /\ classified[1] = category

\* C27: the evidence predicates of the cache re-validation and of the reconciler agree with
\* the classifier's short-circuit checks on every text: for BuyContract,
\* CallAndDistributionStatement and DistributionStatement the predicate of the category
\* holds exactly when classify_doc_type's short-circuit selects the category.
C27_PredicatesAgreeWithClassifier ==
    pc = "done" =>
        /\ is_buy_contract_check(upper_text) <=> Selects("BuyContract")
        /\ is_buy_contract_check_cache(upper_text) <=> Selects("BuyContract")
        /\ is_call_and_distribution(upper_text) <=> Selects("CallAndDistributionStatement")
        /\ is_call_and_distribution_check(upper_text) <=> Selects("CallAndDistributionStatement")
        /\ is_distribution_statement(upper_text) <=> Selects("DistributionStatement")
        /\ is_distribution_statement_check(upper_text) <=> Selects("DistributionStatement")

\* C28: a cache hit leaves the cache unchanged: no entry is added, removed or rewritten,
\* and the order in which the entries will be evicted, their insertion order, stays the same.
C28_HitLeavesCacheUnchanged == [][path' = "hit" => cache' = cache]_vars

C28_Witness ==
    /\ path = "hit"
    /\ Len(cache) = CacheLimit
    /\ Position(cache, Keys[TextId(text)]) = 1

\* the texts that have buy-confirmation evidence: a confirmation or contract-note term
\* together with a buy term
BuyEvidenceTexts == {i \in TextIds : is_buy_contract_check_cache(Upper(TextStr(PipelineTexts[i])))}

\* the entry is one that a request for a text with buy-confirmation evidence stores
StoredForBuyEvidence(entry) ==
    \E i \in BuyEvidenceTexts, e \in ExternalIds : entry = EntryOf(Keys[i], Reclassified[i, e])

\* the entry the cache holds under the key of the text of the last request
EntryOfLastRequest == cache[Position(cache, Keys[TextId(text)])]

\* C29: after any sequence of requests, with any answers of the external classifier, every
\* entry the cache holds for a text with buy-confirmation evidence has doc_type BuyContract.
C29_BuyEvidenceCachedAsBuyContract ==
    /\ \A p \in 1..Len(cache) :
           StoredForBuyEvidence(cache[p]) => cache[p].fields.doc_type = "BuyContract"
    /\ (path \in {"miss", "invalidated"} /\ TextId(text) \in BuyEvidenceTexts)
       => /\ Position(cache, Keys[TextId(text)]) # 0
          /\ StoredForBuyEvidence(EntryOfLastRequest)
          /\ EntryOfLastRequest.fields.doc_type = "BuyContract"

C29_Witness ==
    /\ path = "invalidated"
    /\ TextId(text) \in BuyEvidenceTexts
    /\ llm.combined.doc_type = "DistributionStatement"
    /\ EntryOfLastRequest.fields.doc_type = "BuyContract"
    /\ Len(cache) = CacheLimit

\* the scores of the examples fall or stay equal from one example to the next
NonIncreasing(examples) ==
    \A k \in 1..(Len(examples) - 1) : examples[k].score >= examples[k + 1].score

\* C30: for every store that calls of add_edit can produce, edits with a null doc_type or a
\* null issuer included, find_similar_edits completes without raising and returns at most
\* max_examples edits, each of a positive score, in non-increasing order of score.
C30_FindSimilarEditsCompletes ==
    similar.called
    => /\ ~similar.raised
       /\ Len(similar.examples) <= query.max_examples
       /\ \A k \in 1..Len(similar.examples) : similar.examples[k].score > 0
       /\ NonIncreasing(similar.examples)
====
